---------------------------- MODULE Spec2Model ----------------------------
(***************************************************************************)
(* Orchestration-and-resilience layer of the intern-management backend:    *)
(*   - AICircuitBreaker        (app/services/ai_circuit_breaker.py)        *)
(*   - AIService               (app/services/ai_service.py)                *)
(*   - CoordinatorAgent et al. (app/ai_agents/*.py)                        *)
(*   - AdvancedRateLimiter     (app/core/security.py)                      *)
(* Each component has its own specification (SpecCB, SpecAI, SpecWF,       *)
(* SpecRL); the variables of the other components stay at their initial    *)
(* values.  Time is a discrete clock `now`; durations are scaled to ticks. *)
(* Python's None is modelled by NoTime (-1) for timestamps.                *)
(***************************************************************************)
EXTENDS Integers, Sequences, FiniteSets, TLC

VARIABLES
    now,                   \* datetime.utcnow() / time.time(), in ticks
    \* ---- AICircuitBreaker fields -------------------------------------
    state,                 \* self.state
    failure_count,         \* self.failure_count
    success_count,         \* self.success_count
    last_failure_time,     \* self.last_failure_time
    next_attempt_time,     \* self.next_attempt_time
    total_requests,        \* self.total_requests
    total_failures,        \* self.total_failures
    state_transitions,     \* self.state_transitions
    cb_pc,                 \* per caller: position inside call_with_fallback
    \* ---- history of the breaker (observers, never read by the code) --
    cb_admit,              \* per caller: state the in-flight call was admitted in
    cb_run,                \* failed calls in a row (completion order)
    cb_deadline,           \* last failure of a run >= threshold, plus timeout
    cb_owed,               \* per caller: admitted while now < cb_deadline
    \* ---- AIService fields --------------------------------------------
    circuit_breaker_failures,      \* self.circuit_breaker_failures
    circuit_breaker_last_failure,  \* self.circuit_breaker_last_failure
    error_count,                   \* self.error_count
    svc_success_count,             \* self.success_count (of AIService)
    request_count,                 \* self.request_count
    ai_pc,                 \* per caller: position inside the running operation
    ai_op,                 \* per caller: the operation running or last run
    ai_attempt,            \* per caller: tenacity's attempt number
    ai_returned,           \* the last return of an operation: which, and what
    \* ---- history of the service (observers) --------------------------
    ai_ops_started,        \* operations started so far
    ai_run,                \* failed network attempts in a row
    ai_model_failed,       \* the model call of that last operation failed for good
    ai_recorded,           \* per caller: failures recorded by its invocation in flight
    \* ---- CoordinatorAgent: the workflow being executed ---------------
    wf_pc,                 \* position of the coordinator coroutine
    intern_data,           \* data["intern_data"]: its id, the steps merged in
    has_resume,            \* intern_data.get("resume_file") is truthy
    evaluation_type,       \* what _determine_evaluation_type returned
    workflow_result,       \* steps_completed and results of the running workflow
    gather_pending,        \* fan-out members not yet completed
    gather_results,        \* results of asyncio.gather, by fan-out member
    wf_request,            \* the agent and discriminator of the last process() call
    wf_response,           \* what the last process() call returned or raised
    \* ---- history of the workflows (observers) ------------------------
    wf_started,            \* process() calls so far
    wf_executed,           \* agent calls completed in the running workflow
    \* ---- AdvancedRateLimiter fields ----------------------------------
    client_requests,       \* self.client_requests: admitted timestamps per client
    request_keys,          \* the keys self.client_requests holds
    blocked_ips,           \* self.blocked_ips: time of the block per client, 0 if none
    blocked_keys,          \* the keys self.blocked_ips holds
    \* ---- history of the rate limiter (observers) ---------------------
    rl_checks,             \* calls of is_allowed / get_remaining so far
    rl_calls,              \* per client: calls of is_allowed so far
    rl_last,               \* the last is_allowed call and what it returned
    rl_tiers_used,         \* per client: tiers of its is_allowed calls
    rl_admitted,           \* per (client, tier): admitted timestamps in the window
    rl_ever_blocked,       \* per client: a hard block was ever set
    rl_remaining,          \* the last get_remaining call and what it returned
    \* ---- CacheService fields -----------------------------------------
    cache_initialized,     \* initialize() has run
    redis_client,          \* self.redis_client: "connected" or "none"
    redis_store,           \* what Redis holds: entries of key, value and expiry
    local_cache,           \* self.local_cache, in insertion order
    local_timers,          \* the pending tasks of _expire_local_key
    \* ---- history of the cache (observers) ----------------------------
    cache_ops,             \* cache operations so far
    cache_last,            \* the last read and what it returned
    cache_truth,           \* per key set: the latest value, when it was set, its ttl
    \* ---- callers of a function decorated with cache_result -----------
    memo_pc,               \* per caller: position inside async_wrapper
    memo_args,             \* per caller: the arguments of its call
    memo_answer,           \* per caller: what its last call returned
    memo_runs              \* per arguments: executions of the function so far

cbVars == <<state, failure_count, success_count, last_failure_time,
            next_attempt_time, total_requests, total_failures,
            state_transitions, cb_pc,
            cb_admit, cb_run, cb_deadline, cb_owed>>

aiVars == <<circuit_breaker_failures, circuit_breaker_last_failure,
            error_count, svc_success_count, request_count,
            ai_pc, ai_op, ai_attempt, ai_returned,
            ai_ops_started, ai_run, ai_model_failed, ai_recorded>>

wfVars == <<wf_pc, intern_data, has_resume, evaluation_type, workflow_result,
            gather_pending, gather_results, wf_request, wf_response,
            wf_started, wf_executed>>

rlVars == <<client_requests, request_keys, blocked_ips, blocked_keys,
            rl_checks, rl_calls, rl_last, rl_tiers_used, rl_admitted,
            rl_ever_blocked, rl_remaining>>

memoVars == <<memo_pc, memo_args, memo_answer, memo_runs>>

cacheVars == <<cache_initialized, redis_client, redis_store, local_cache,
               local_timers, cache_ops, cache_last, cache_truth, memoVars>>

vars == <<now, cbVars, aiVars, wfVars, rlVars, cacheVars>>

NoTime == -1

\* ------------------------------------------------------------------ bounds
NumCallers == 2        \* concurrent callers (coroutines) of one breaker
MaxTime == 4           \* the clock stops here
MaxRequests == 5       \* calls ever started on the AICircuitBreaker
TimeoutTicks == 2      \* timeout_seconds, in ticks
TransitionLogCap == 2  \* the cap of state_transitions (100 in the code), scaled
MaxOps == 2            \* AIService operations ever started
MaxWorkflows == 1      \* process() calls ever made on the agents
MaxChecks == 3         \* calls ever made on the rate limiter
MaxClock == 4          \* the clock of the rate limiter stops here
WindowTicks == 3       \* the window of every tier (3600 s), in ticks
MinuteTicks == 2       \* the sub-window of the violation count (60 s), in ticks
StandardQuota == 2     \* requests per window, tier standard (100)
PremiumQuota == 3      \* requests per window, tier premium (500)
AIHeavyQuota == 1      \* requests per window, tier ai_heavy (50)
MaxCacheOps == 3       \* cache operations ever started
LocalCacheMaxSize == 2 \* self.local_cache_max_size (1000), scaled

Callers == 1..NumCallers

\* --------------------------------------------------- AICircuitBreaker model
CLOSED == "closed"
OPEN == "open"
HALF_OPEN == "half_open"

failure_threshold == 3
timeout_seconds == TimeoutTicks

\* _record_state_transition(new_state), as the value of the log after it,
\* given the counters the entry records (the entry's ISO timestamp, which
\* nothing reads back, is left out)
RecordStateTransition(log, new_state, fc, sc) ==
    LET appended == Append(log, [state |-> new_state, failure_count |-> fc, success_count |-> sc])
    IN  IF Len(appended) > TransitionLogCap
        THEN SubSeq(appended, Len(appended) - TransitionLogCap + 1, Len(appended))
        ELSE appended

\* _should_attempt_reset()
ShouldAttemptReset ==
    next_attempt_time # NoTime /\ now >= next_attempt_time

\* _on_success() with the count decremented instead of cleared
OnSuccessDecrement ==
    /\ failure_count' = IF failure_count > 0 THEN failure_count - 1 ELSE 0
    /\ success_count' = success_count + 1
    /\ IF state # CLOSED
       THEN /\ state' = CLOSED
            /\ state_transitions' =
                 RecordStateTransition(state_transitions, "CLOSED", 0, success_count + 1)
       ELSE UNCHANGED <<state, state_transitions>>
    /\ next_attempt_time' = NoTime
    /\ UNCHANGED <<last_failure_time, total_failures>>

\* _on_success()
OnSuccess ==
    /\ failure_count' = 0
    /\ success_count' = success_count + 1
    /\ IF state # CLOSED
       THEN /\ state' = CLOSED
            /\ state_transitions' =
                 RecordStateTransition(state_transitions, "CLOSED", 0, success_count + 1)
       ELSE UNCHANGED <<state, state_transitions>>
    /\ next_attempt_time' = NoTime
    /\ UNCHANGED <<last_failure_time, total_failures>>

\* _on_failure() that counts the failure and never opens the breaker
OnFailureCountsOnly ==
    /\ failure_count' = failure_count + 1
    /\ total_failures' = total_failures + 1
    /\ last_failure_time' = now
    /\ UNCHANGED <<state, state_transitions, next_attempt_time, success_count>>

\* _on_failure()
OnFailure ==
    /\ failure_count' = failure_count + 1
    /\ total_failures' = total_failures + 1
    /\ last_failure_time' = now
    /\ IF failure_count + 1 >= failure_threshold
       THEN /\ IF state # OPEN
               THEN /\ state' = OPEN
                    /\ state_transitions' =
                         RecordStateTransition(state_transitions, "OPEN",
                                               failure_count + 1, success_count)
               ELSE UNCHANGED <<state, state_transitions>>
            /\ next_attempt_time' = now + timeout_seconds
       ELSE UNCHANGED <<state, state_transitions, next_attempt_time>>
    /\ UNCHANGED success_count

\* call_with_fallback, up to the first suspension point: either the call is
\* rejected (fallback_func or the "temporarily unavailable" exception; neither
\* touches the breaker) or func is invoked and the coroutine awaits it.
CallWithFallback_Start(p) ==
    /\ cb_pc[p] = "idle"
    /\ total_requests < MaxRequests
    /\ total_requests' = total_requests + 1
    /\ IF state = OPEN /\ ~ShouldAttemptReset
       THEN \* lines 50-54: rejected
            /\ UNCHANGED <<state, state_transitions, cb_pc, cb_admit, cb_owed>>
       ELSE \* lines 45-48 (OPEN, timer elapsed) or straight to line 57
            /\ IF state = OPEN
               THEN /\ state' = HALF_OPEN
                    /\ state_transitions' =
                         RecordStateTransition(state_transitions, "HALF_OPEN",
                                               failure_count, success_count)
               ELSE UNCHANGED <<state, state_transitions>>
            /\ cb_pc' = [cb_pc EXCEPT ![p] = "await_func"]
            /\ cb_admit' = [cb_admit EXCEPT ![p] = state']
            /\ cb_owed' = [cb_owed EXCEPT
                              ![p] = cb_deadline # NoTime /\ now < cb_deadline]
    /\ UNCHANGED <<now, failure_count, success_count, last_failure_time,
                   next_attempt_time, total_failures, cb_run, cb_deadline>>

\* line 57-59: func returned
CallWithFallback_Success(p) ==
    /\ cb_pc[p] = "await_func"
    /\ OnSuccess
    /\ cb_pc' = [cb_pc EXCEPT ![p] = "idle"]
    /\ cb_admit' = [cb_admit EXCEPT ![p] = "none"]
    /\ cb_owed' = [cb_owed EXCEPT ![p] = FALSE]
    /\ cb_run' = 0
    /\ UNCHANGED <<now, total_requests, cb_deadline>>

\* lines 61-72: func raised expected_exception (Exception for every instance
\* the module creates); the fallback or the re-raise follows, and neither
\* touches the breaker
CallWithFallback_Failure(p) ==
    /\ cb_pc[p] = "await_func"
    /\ OnFailure
    /\ cb_pc' = [cb_pc EXCEPT ![p] = "idle"]
    /\ cb_admit' = [cb_admit EXCEPT ![p] = "none"]
    /\ cb_owed' = [cb_owed EXCEPT ![p] = FALSE]
    /\ cb_run' = cb_run + 1
    /\ cb_deadline' = IF cb_run + 1 >= failure_threshold
                      THEN now + timeout_seconds ELSE cb_deadline
    /\ UNCHANGED <<now, total_requests>>

\* the awaiting coroutine is cancelled (asyncio.CancelledError is a
\* BaseException: neither except clause of lines 61-76 catches it)
CallWithFallback_Cancelled(p) ==
    /\ cb_pc[p] = "await_func"
    /\ cb_pc' = [cb_pc EXCEPT ![p] = "idle"]
    /\ cb_admit' = [cb_admit EXCEPT ![p] = "none"]
    /\ cb_owed' = [cb_owed EXCEPT ![p] = FALSE]
    /\ UNCHANGED <<now, state, failure_count, success_count, last_failure_time,
                   next_attempt_time, total_requests, total_failures,
                   state_transitions, cb_run, cb_deadline>>

\* reset()
Reset ==
    /\ failure_count' = 0
    /\ state' = CLOSED
    /\ next_attempt_time' = NoTime
    /\ state_transitions' =
         RecordStateTransition(state_transitions, "RESET", 0, success_count)
    /\ cb_run' = 0
    /\ cb_deadline' = NoTime
    /\ UNCHANGED <<now, success_count, last_failure_time, total_requests,
                   total_failures, cb_pc, cb_admit, cb_owed>>

\* the clock advances
Tick ==
    /\ now < MaxTime
    /\ now' = now + 1

TickCB == Tick /\ UNCHANGED <<cbVars, aiVars, wfVars, rlVars, cacheVars>>

InitCB ==
    /\ state = CLOSED
    /\ failure_count = 0
    /\ success_count = 0
    /\ last_failure_time = NoTime
    /\ next_attempt_time = NoTime
    /\ total_requests = 0
    /\ total_failures = 0
    /\ state_transitions = <<>>
    /\ cb_pc = [p \in Callers |-> "idle"]
    /\ cb_admit = [p \in Callers |-> "none"]
    /\ cb_run = 0
    /\ cb_deadline = NoTime
    /\ cb_owed = [p \in Callers |-> FALSE]

\* ----------------------------------------------------------- AIService model
circuit_breaker_threshold == 5
circuit_breaker_timeout == TimeoutTicks
max_attempts == 3      \* stop_after_attempt(3)

\* the operations of AIService that reach the model service
SafeCallOps == {"analyze_resume_ai", "assess_skills_ai"}
AgentOps == {"auto_grade_submission", "generate_personalized_content"}
ServiceOps == SafeCallOps \cup AgentOps

\* what openai.ChatCompletion.acreate can raise, by except clause of
\* safe_openai_call
ErrorKinds == {"RateLimitError", "AuthenticationError", "InvalidRequestError",
               "InsufficientQuotaError", "ServiceUnavailableError",
               "TimeoutError", "Exception"}

\* _fallback_resume_analysis
FallbackResumeAnalysis ==
    [status |-> "fallback", overall_score |-> 50,
     analysis_metadata |-> [fallback_used |-> TRUE]]

\* _fallback_skills_assessment
FallbackSkillsAssessment ==
    [status |-> "fallback", readiness_score |-> 50,
     assessment_metadata |-> [fallback_used |-> TRUE]]

\* _fallback_evaluation
FallbackEvaluation ==
    [status |-> "fallback", overall_score |-> 75, meets_requirements |-> TRUE,
     fallback_used |-> TRUE, evaluation_pending |-> TRUE]

\* _fallback_content_generation
FallbackContentGeneration ==
    [status |-> "fallback", personalization_level |-> "basic",
     fallback_used |-> TRUE]

\* the dictionary an operation returns when the model answered and the
\* answer parsed: the model's own keys plus the operation's metadata
ModelResult(op) == [produced_by |-> "model", operation |-> op]

\* the value each operation returns from its except / failure branches
FallbackOf(op) ==
    CASE op = "analyze_resume_ai" -> FallbackResumeAnalysis
      [] op = "assess_skills_ai" -> FallbackSkillsAssessment
      [] op = "auto_grade_submission" -> FallbackEvaluation
      [] OTHER -> FallbackContentGeneration

\* AgentOpReturn without the operation's outer except clause: an exception of
\* the agent reaches the caller
AgentOpReturnPropagates(op, outcome) ==
    CASE outcome = "success" -> ModelResult(op)
      [] outcome = "raise" -> [status |-> "raised"]
      [] OTHER -> FallbackOf(op)

\* what auto_grade_submission / generate_personalized_content return for
\* each way the awaited agent.process can end (lines 328-347, 377-395)
AgentOpReturn(op, outcome) ==
    IF outcome = "success" THEN ModelResult(op) ELSE FallbackOf(op)

\* _is_circuit_breaker_open(): the value it returns ...
IsCircuitBreakerOpen ==
    /\ circuit_breaker_failures >= circuit_breaker_threshold
    /\ ~(/\ circuit_breaker_last_failure # NoTime
         /\ now - circuit_breaker_last_failure > circuit_breaker_timeout)

\* ... and the fields it leaves behind (lines 82-85 clear them once the
\* timeout has passed)
BreakerCheckClears ==
    /\ circuit_breaker_failures >= circuit_breaker_threshold
    /\ circuit_breaker_last_failure # NoTime
    /\ now - circuit_breaker_last_failure > circuit_breaker_timeout

\* _record_success(), as the new value of circuit_breaker_failures
RecordSuccessFailures(f) == IF f - 1 > 0 THEN f - 1 ELSE 0

\* _record_failure(), as the new value of circuit_breaker_failures
RecordFailureFailures(f) == f + 1

\* an operation returns value ret to its caller
Returned(op, ret) == [op |-> op, ret |-> ret]

\* AfterRaise without stop_after_attempt: every raise is followed by another
\* attempt
AfterRaiseKeepsRetrying(p, op, recorded) ==
    /\ ai_pc' = [ai_pc EXCEPT ![p] = "backoff"]
    /\ ai_attempt' = [ai_attempt EXCEPT ![p] = @ + 1]
    /\ ai_op' = [ai_op EXCEPT ![p] = op]
    /\ ai_recorded' = [ai_recorded EXCEPT ![p] = recorded]
    /\ UNCHANGED <<ai_returned, ai_model_failed>>

\* tenacity, after an attempt of safe_openai_call raised inside operation op:
\* another attempt after the back-off wait, or RetryError to the operation,
\* whose except clause returns the operation's fallback
AfterRaise(p, op, recorded) ==
    IF ai_attempt[p] < max_attempts
    THEN /\ ai_pc' = [ai_pc EXCEPT ![p] = "backoff"]
         /\ ai_attempt' = [ai_attempt EXCEPT ![p] = @ + 1]
         /\ ai_op' = [ai_op EXCEPT ![p] = op]
         /\ ai_recorded' = [ai_recorded EXCEPT ![p] = recorded]
         /\ UNCHANGED <<ai_returned, ai_model_failed>>
    ELSE /\ ai_pc' = [ai_pc EXCEPT ![p] = "idle"]
         /\ ai_recorded' = [ai_recorded EXCEPT ![p] = 0]
         /\ ai_attempt' = [ai_attempt EXCEPT ![p] = 1]
         /\ ai_op' = [ai_op EXCEPT ![p] = "none"]
         /\ ai_returned' = Returned(op, FallbackOf(op))
         /\ ai_model_failed' = TRUE

\* one attempt of safe_openai_call up to its suspension point (lines
\* 107-120): the breaker check, then either the rejection or the request
SafeOpenAICall_Attempt(p, op) ==
    /\ IF BreakerCheckClears
       THEN /\ circuit_breaker_failures' = 0
            /\ circuit_breaker_last_failure' = NoTime
            /\ ai_run' = 0
       ELSE UNCHANGED <<circuit_breaker_failures, circuit_breaker_last_failure, ai_run>>
    /\ IF IsCircuitBreakerOpen
       THEN AfterRaise(p, op, IF ai_pc[p] = "idle" THEN 0 ELSE ai_recorded[p])
       ELSE /\ ai_pc' = [ai_pc EXCEPT ![p] = "await_acreate"]
            /\ ai_op' = [ai_op EXCEPT ![p] = op]
            /\ UNCHANGED <<ai_attempt, ai_returned, ai_model_failed, ai_recorded>>
    /\ UNCHANGED <<now, error_count, svc_success_count, request_count>>

\* analyze_resume_ai / assess_skills_ai up to the first suspension point,
\* the first attempt of safe_openai_call included; a request that fails the
\* operation's own validation (assess_skills_ai, line 242) returns the
\* fallback without any call
SafeCallOp_Start(p, op, valid) ==
    /\ ai_pc[p] = "idle"
    /\ ai_ops_started < MaxOps
    /\ op \in SafeCallOps
    /\ valid \/ op = "assess_skills_ai"
    /\ ai_ops_started' = ai_ops_started + 1
    /\ IF valid
       THEN SafeOpenAICall_Attempt(p, op)
       ELSE /\ ai_returned' = Returned(op, FallbackOf(op))
            /\ ai_model_failed' = FALSE
            /\ UNCHANGED <<now, circuit_breaker_failures, circuit_breaker_last_failure,
                           error_count, svc_success_count, request_count,
                           ai_pc, ai_op, ai_attempt, ai_run, ai_recorded>>

\* tenacity's back-off sleep is over: the next attempt
SafeOpenAICall_Retry(p) ==
    /\ ai_pc[p] = "backoff"
    /\ SafeOpenAICall_Attempt(p, ai_op[p])
    /\ UNCHANGED ai_ops_started

\* acreate returned (lines 122-128), then the operation parses the answer
\* (json.loads): parsed, or the JSONDecodeError branch
SafeOpenAICall_Response(p, parsed) ==
    /\ ai_pc[p] = "await_acreate"
    /\ request_count' = request_count + 1
    /\ circuit_breaker_failures' = RecordSuccessFailures(circuit_breaker_failures)
    /\ svc_success_count' = svc_success_count + 1
    /\ ai_run' = 0
    /\ ai_pc' = [ai_pc EXCEPT ![p] = "idle"]
    /\ ai_attempt' = [ai_attempt EXCEPT ![p] = 1]
    /\ ai_op' = [ai_op EXCEPT ![p] = "none"]
    /\ ai_returned' = Returned(ai_op[p],
                          IF parsed THEN ModelResult(ai_op[p]) ELSE FallbackOf(ai_op[p]))
    /\ ai_model_failed' = FALSE
    /\ ai_recorded' = [ai_recorded EXCEPT ![p] = 0]
    /\ UNCHANGED <<now, circuit_breaker_last_failure, error_count, ai_ops_started>>

\* acreate raised (lines 130-163): every except clause records the failure
\* and raises, and tenacity decides what follows
SafeOpenAICall_Error(p, kind) ==
    /\ ai_pc[p] = "await_acreate"
    /\ kind \in ErrorKinds
    /\ circuit_breaker_failures' = RecordFailureFailures(circuit_breaker_failures)
    /\ circuit_breaker_last_failure' = now
    /\ error_count' = error_count + 1
    /\ ai_run' = ai_run + 1
    /\ AfterRaise(p, ai_op[p], ai_recorded[p] + 1)
    /\ UNCHANGED <<now, svc_success_count, request_count, ai_ops_started>>

\* auto_grade_submission / generate_personalized_content up to the awaited
\* agent.process (lines 308-332, 356-381); input that fails validation
\* returns the fallback at once
AgentOp_Start(p, op, valid) ==
    /\ ai_pc[p] = "idle"
    /\ ai_ops_started < MaxOps
    /\ op \in AgentOps
    /\ ai_ops_started' = ai_ops_started + 1
    /\ IF valid
       THEN /\ ai_pc' = [ai_pc EXCEPT ![p] = "await_agent"]
            /\ ai_op' = [ai_op EXCEPT ![p] = op]
            /\ UNCHANGED <<ai_returned, ai_model_failed>>
       ELSE /\ ai_returned' = Returned(op, FallbackOf(op))
            /\ ai_model_failed' = FALSE
            /\ UNCHANGED <<ai_pc, ai_op>>
    /\ UNCHANGED <<now, circuit_breaker_failures, circuit_breaker_last_failure,
                   error_count, svc_success_count, request_count, ai_attempt, ai_run,
                   ai_recorded>>

\* the awaited agent.process ended: a success Envelope, a failure Envelope
\* (the agent's own except clause, after its model call failed), the
\* wait_for timeout, or an exception
AgentOutcomes == {"success", "failure", "timeout", "raise"}

AgentOp_Done(p, outcome) ==
    /\ ai_pc[p] = "await_agent"
    /\ outcome \in AgentOutcomes
    /\ ai_pc' = [ai_pc EXCEPT ![p] = "idle"]
    /\ ai_op' = [ai_op EXCEPT ![p] = "none"]
    /\ ai_returned' = Returned(ai_op[p], AgentOpReturn(ai_op[p], outcome))
    /\ ai_model_failed' = (outcome # "success")
    /\ UNCHANGED <<now, circuit_breaker_failures, circuit_breaker_last_failure,
                   error_count, svc_success_count, request_count,
                   ai_attempt, ai_ops_started, ai_run, ai_recorded>>

NoResult == [status |-> "none"]

InitAI ==
    /\ circuit_breaker_failures = 0
    /\ circuit_breaker_last_failure = NoTime
    /\ error_count = 0
    /\ svc_success_count = 0
    /\ request_count = 0
    /\ ai_pc = [p \in Callers |-> "idle"]
    /\ ai_op = [p \in Callers |-> "none"]
    /\ ai_attempt = [p \in Callers |-> 1]
    /\ ai_returned = Returned("none", NoResult)
    /\ ai_ops_started = 0
    /\ ai_run = 0
    /\ ai_model_failed = FALSE
    /\ ai_recorded = [p \in Callers |-> 0]

\* ------------------------------------------- CoordinatorAgent and its agents
\* Python's None as the data of an Envelope
None == [is_none |-> TRUE]

\* BaseAgent.format_response; the agent name and the timestamp are left out
format_response(success, data, message) ==
    [success |-> success, data |-> data, message |-> message]

Agents == {"coordinator", "onboarding", "assessment", "customization",
           "task_manager", "evaluation"}

\* the discriminator values each process() compares against
Discriminators(agent) ==
    CASE agent = "coordinator" ->
            {"new_intern_onboarding", "task_submission_processing",
             "periodic_review", "comprehensive_evaluation",
             "adaptive_learning_update"}
      [] agent = "onboarding" ->
            {"create_profile", "generate_welcome_package",
             "setup_learning_environment", "create_onboarding_schedule",
             "generate_mentor_introduction"}
      [] agent = "assessment" ->
            {"resume_analysis", "skill_assessment", "quiz_evaluation"}
      [] agent = "customization" ->
            {"learning_path", "project_plan", "task_customization"}
      [] agent = "task_manager" ->
            {"allocate_tasks", "generate_task", "monitor_progress",
             "rebalance_workload", "predict_completion"}
      [] OTHER ->
            {"code_submission", "project_submission", "written_assignment",
             "presentation", "peer_evaluation"}

\* branches of process() that call a method no class defines
\* (execute_review_workflow, execute_adaptive_learning_update,
\* rebalance_workload, evaluate_presentation, process_peer_evaluation)
UndefinedMethods ==
    {<<"coordinator", "periodic_review">>,
     <<"coordinator", "adaptive_learning_update">>,
     <<"task_manager", "rebalance_workload">>,
     <<"evaluation", "presentation">>,
     <<"evaluation", "peer_evaluation">>}

\* the message of the else branch of each process()
InvalidMessage(agent) ==
    CASE agent = "coordinator" -> "Invalid workflow type"
      [] agent = "onboarding" -> "Invalid onboarding operation"
      [] agent = "assessment" -> "Invalid assessment type"
      [] agent = "customization" -> "Invalid customization type"
      [] agent = "task_manager" -> "Invalid task management operation"
      [] OTHER -> "Invalid evaluation type"

\* how an operation of a Capability Agent ends, its body being one
\* try / except Exception: a success Envelope whose data is a dictionary
\* (with or without an "id" key), or the failure Envelope of the except clause
OperationOutcomes == {"ok", "ok_id", "fail"}

\* what the coordinator's await of an agent call can end with: the above, or
\* an exception out of the agent, the case its except clauses and
\* gather(return_exceptions=True) are written for
MethodOutcomes == OperationOutcomes \cup {"raise"}

AgentData(outcome) == [is_none |-> FALSE, has_id |-> outcome = "ok_id"]

\* what awaiting a call ends with: an exception or a returned value
Raised(exc) == [raised |-> TRUE, exception |-> exc]
ReturnedEnvelope(env) == [raised |-> FALSE, envelope |-> env]

\* process() of a Capability Agent for one discriminator value
AgentProcess(agent, disc, outcome) ==
    IF disc \notin Discriminators(agent)
    THEN ReturnedEnvelope(format_response(FALSE, None, InvalidMessage(agent)))
    ELSE IF <<agent, disc>> \in UndefinedMethods
    THEN Raised("AttributeError")
    ELSE CASE outcome = "raise" -> Raised("Exception")
           [] outcome = "fail" ->
                ReturnedEnvelope(format_response(FALSE, None, "operation failed"))
           [] OTHER ->
                ReturnedEnvelope(format_response(TRUE, AgentData(outcome), "operation succeeded"))

\* the coordinator coroutine: which workflow it runs and which await it is at
Idle == [workflow |-> "none", at |-> "idle"]
Awaiting(workflow, at) == [workflow |-> workflow, at |-> at]

\* a key of workflow_result["results"] that has not been assigned
Absent == [absent |-> TRUE]

\* keys of workflow_result["results"] / comprehensive_result["agent_evaluations"]
ResultKeys ==
    {"profile", "resume_analysis", "skill_assessment", "learning_path",
     "task_allocation", "evaluation", "progress_update", "next_recommendations",
     "assessment", "task_manager", "customization"}

\* workflow_result / comprehensive_result as the workflow creates it
NewWorkflowResult(workflow) ==
    [workflow |-> workflow, steps_completed |-> <<>>,
     results |-> [k \in ResultKeys |-> Absent], summary |-> "none"]

NoResponse == [raised |-> FALSE, envelope |-> None]

\* the name appended to steps_completed for a key of results
StepName(key) == IF key = "profile" THEN "profile_creation" ELSE key

\* workflow_result after a step's Envelope has been recorded
RecordStep(wr, key, env) ==
    [wr EXCEPT !.steps_completed = Append(@, StepName(key)),
               !.results = [@ EXCEPT ![key] = env]]

\* the ids of interns: the one the caller supplies, one a model answer holds
CallerInternId == 1
AnswerInternId == 2

\* UpdateInternData that drops the data it is given
UpdateInternDataSkipped(d, key, env) == d

\* intern_data.update(result.get("data", {}))
UpdateInternData(d, key, env) ==
    [id |-> IF env.data.has_id THEN AnswerInternId ELSE d.id,
     merged |-> d.merged \cup {key}]

\* the agent and the discriminator of each onboarding step
OnboardingAgentOf(key) ==
    CASE key = "profile" -> "onboarding"
      [] key \in {"resume_analysis", "skill_assessment"} -> "assessment"
      [] key = "learning_path" -> "customization"
      [] OTHER -> "task_manager"

OnboardingDiscOf(key) ==
    CASE key = "profile" -> "create_profile"
      [] key = "task_allocation" -> "allocate_tasks"
      [] OTHER -> key

\* the step awaited after the step at key returned
OnboardingNext(key, resume) ==
    CASE key = "profile" -> IF resume THEN "resume_analysis" ELSE "skill_assessment"
      [] key = "resume_analysis" -> "skill_assessment"
      [] key = "skill_assessment" -> "learning_path"
      [] OTHER -> "task_allocation"

\* _generate_onboarding_recommendations raises AttributeError: it calls
\* .get on the data of the skill_assessment and learning_path Envelopes,
\* which is None in a failure Envelope
RecommendationsRaise(results) ==
    \/ results["skill_assessment"] # Absent /\ results["skill_assessment"].data = None
    \/ results["learning_path"] # Absent /\ results["learning_path"].data = None

\* a process() call returns or raises: the coroutine is over
Respond(r) ==
    /\ wf_response' = r
    /\ wf_pc' = Idle

\* CoordinatorAgent.process, workflow "new_intern_onboarding":
\* execute_onboarding_workflow up to the await of step 1
Process_Onboarding(resume) ==
    /\ wf_pc = Idle
    /\ wf_started < MaxWorkflows
    /\ wf_started' = wf_started + 1
    /\ wf_request' = [agent |-> "coordinator", disc |-> "new_intern_onboarding"]
    /\ intern_data' = [id |-> CallerInternId, merged |-> {}]
    /\ has_resume' = resume
    /\ workflow_result' = NewWorkflowResult("new_intern_onboarding")
    /\ wf_executed' = <<>>
    /\ wf_pc' = Awaiting("new_intern_onboarding", "profile")
    /\ wf_response' = NoResponse
    /\ UNCHANGED <<evaluation_type, gather_pending, gather_results>>

\* the awaited agent call of an onboarding step ended: the rest of
\* execute_onboarding_workflow up to the next await or to its return
Onboarding_StepDone(outcome) ==
    /\ wf_pc.workflow = "new_intern_onboarding"
    /\ outcome \in MethodOutcomes
    /\ LET key == wf_pc.at
           r == AgentProcess(OnboardingAgentOf(key), OnboardingDiscOf(key), outcome)
       IN  IF r.raised
           THEN /\ Respond(ReturnedEnvelope(
                       format_response(FALSE, None, "Onboarding workflow failed")))
                /\ UNCHANGED <<intern_data, workflow_result, wf_executed>>
           ELSE LET env == r.envelope
                    wr == RecordStep(workflow_result, key, env)
                IN  /\ workflow_result' = wr
                    /\ wf_executed' = Append(wf_executed, [key |-> key, envelope |-> env])
                    /\ intern_data' =
                          IF key \in {"resume_analysis", "skill_assessment"} /\ env.success
                          THEN UpdateInternData(intern_data, key, env)
                          ELSE intern_data
                    /\ CASE key = "profile" /\ ~env.success ->
                              Respond(ReturnedEnvelope(
                                  format_response(FALSE, wr, "Profile creation failed")))
                         [] key = "task_allocation" ->
                              IF RecommendationsRaise(wr.results)
                              THEN Respond(ReturnedEnvelope(
                                       format_response(FALSE, None, "Onboarding workflow failed")))
                              ELSE Respond(ReturnedEnvelope(
                                       format_response(TRUE, [wr EXCEPT !.summary = "recommendations"],
                                                       "Onboarding workflow completed successfully")))
                         [] OTHER ->
                              /\ wf_pc' = Awaiting("new_intern_onboarding",
                                                   OnboardingNext(key, has_resume))
                              /\ UNCHANGED wf_response
    /\ UNCHANGED <<has_resume, evaluation_type, gather_pending, gather_results,
                   wf_started, wf_request>>

\* the methods CoordinatorAgent has (its own and BaseAgent's); a call of any
\* other name on self raises AttributeError
CoordinatorMethods ==
    {"process", "execute_onboarding_workflow", "execute_submission_workflow",
     "execute_comprehensive_evaluation", "get_agent_communication_log",
     "_generate_onboarding_recommendations", "_generate_integrated_feedback",
     "_determine_evaluation_type", "log_inter_agent_communication",
     "log_activity", "validate_input", "format_response"}

\* what _determine_evaluation_type can return
EvaluationTypes ==
    {"code_submission", "project_submission", "written_assignment", "presentation"}

\* CoordinatorAgent.process, workflow "task_submission_processing":
\* execute_submission_workflow up to the await of the evaluation step
Process_Submission(etype) ==
    /\ wf_pc = Idle
    /\ wf_started < MaxWorkflows
    /\ etype \in EvaluationTypes
    /\ wf_started' = wf_started + 1
    /\ wf_request' = [agent |-> "coordinator", disc |-> "task_submission_processing"]
    /\ evaluation_type' = etype
    /\ workflow_result' = NewWorkflowResult("task_submission_processing")
    /\ wf_executed' = <<>>
    /\ wf_pc' = Awaiting("task_submission_processing", "evaluation")
    /\ wf_response' = NoResponse
    /\ UNCHANGED <<intern_data, has_resume, gather_pending, gather_results>>

SubmissionAgentOf(key) ==
    CASE key = "evaluation" -> "evaluation"
      [] key = "progress_update" -> "task_manager"
      [] OTHER -> "customization"

SubmissionDiscOf(key, etype) ==
    CASE key = "evaluation" -> etype
      [] key = "progress_update" -> "monitor_progress"
      [] OTHER -> "task_customization"

\* the tail of execute_submission_workflow (lines 239-264): the integrated
\* feedback, then self._determine_next_steps
SubmissionFinish(wr) ==
    IF "_determine_next_steps" \in CoordinatorMethods
    THEN Respond(ReturnedEnvelope(
             format_response(TRUE, [wr EXCEPT !.summary = "feedback"],
                             "Submission processing workflow completed successfully")))
    ELSE Respond(ReturnedEnvelope(
             format_response(FALSE, None, "Submission workflow failed")))

\* the awaited agent call of a submission step ended
Submission_StepDone(outcome) ==
    /\ wf_pc.workflow = "task_submission_processing"
    /\ outcome \in MethodOutcomes
    /\ LET key == wf_pc.at
           r == AgentProcess(SubmissionAgentOf(key),
                             SubmissionDiscOf(key, evaluation_type), outcome)
       IN  IF r.raised
           THEN /\ Respond(ReturnedEnvelope(
                       format_response(FALSE, None, "Submission workflow failed")))
                /\ UNCHANGED <<workflow_result, wf_executed>>
           ELSE LET env == r.envelope
                    wr == RecordStep(workflow_result, key, env)
                IN  /\ workflow_result' = wr
                    /\ wf_executed' = Append(wf_executed, [key |-> key, envelope |-> env])
                    /\ CASE key = "evaluation" ->
                              /\ wf_pc' = Awaiting("task_submission_processing", "progress_update")
                              /\ UNCHANGED wf_response
                         [] key = "progress_update" /\ wr.results["evaluation"].success ->
                              /\ wf_pc' = Awaiting("task_submission_processing", "next_recommendations")
                              /\ UNCHANGED wf_response
                         [] OTHER -> SubmissionFinish(wr)
    /\ UNCHANGED <<intern_data, has_resume, evaluation_type, gather_pending,
                   gather_results, wf_started, wf_request>>

\* the members of the fan-out of execute_comprehensive_evaluation
FanOut == {"assessment", "task_manager", "customization"}

FanOutDiscOf(member) ==
    CASE member = "assessment" -> "skill_assessment"
      [] member = "task_manager" -> "monitor_progress"
      [] OTHER -> "learning_path"

\* CoordinatorAgent.process, workflow "comprehensive_evaluation":
\* execute_comprehensive_evaluation up to the await of asyncio.gather
Process_Evaluation ==
    /\ wf_pc = Idle
    /\ wf_started < MaxWorkflows
    /\ wf_started' = wf_started + 1
    /\ wf_request' = [agent |-> "coordinator", disc |-> "comprehensive_evaluation"]
    /\ workflow_result' = NewWorkflowResult("comprehensive_evaluation")
    /\ wf_executed' = <<>>
    /\ gather_pending' = FanOut
    /\ gather_results' = [m \in FanOut |-> Absent]
    /\ wf_pc' = Awaiting("comprehensive_evaluation", "gather")
    /\ wf_response' = NoResponse
    /\ UNCHANGED <<intern_data, has_resume, evaluation_type>>

\* one member of the fan-out completes; return_exceptions=True keeps its
\* exception as its result and leaves the other members running
Evaluation_MemberDone(member, outcome) ==
    /\ wf_pc = Awaiting("comprehensive_evaluation", "gather")
    /\ member \in gather_pending
    /\ outcome \in MethodOutcomes
    /\ LET r == AgentProcess(member, FanOutDiscOf(member), outcome)
       IN  /\ gather_results' = [gather_results EXCEPT ![member] = r]
           /\ wf_executed' = IF r.raised THEN wf_executed
                             ELSE Append(wf_executed, [key |-> member, envelope |-> r.envelope])
    /\ gather_pending' = gather_pending \ {member}
    /\ UNCHANGED <<wf_pc, intern_data, has_resume, evaluation_type, workflow_result,
                   wf_request, wf_response, wf_started>>

\* agent_evaluations as the loop of lines 311-315 fills it
AgentEvaluations(results) ==
    [k \in ResultKeys |->
        IF k \in FanOut /\ ~results[k].raised THEN results[k].envelope ELSE Absent]

\* asyncio.gather returned: the rest of execute_comprehensive_evaluation
Evaluation_Gathered ==
    /\ wf_pc = Awaiting("comprehensive_evaluation", "gather")
    /\ gather_pending = {}
    /\ LET wr == [workflow_result EXCEPT !.results = AgentEvaluations(gather_results),
                                         !.summary = "insights"]
       IN  /\ workflow_result' = [workflow_result EXCEPT !.results = AgentEvaluations(gather_results)]
           /\ IF {"_generate_integrated_insights", "_create_comprehensive_action_plan"}
                    \subseteq CoordinatorMethods
              THEN Respond(ReturnedEnvelope(
                       format_response(TRUE, wr, "Comprehensive evaluation completed successfully")))
              ELSE Respond(ReturnedEnvelope(
                       format_response(FALSE, None, "Comprehensive evaluation failed")))
    /\ UNCHANGED <<intern_data, has_resume, evaluation_type, gather_pending,
                   gather_results, wf_request, wf_started, wf_executed>>

\* CoordinatorAgent.process for the other values of data["workflow"]
Process_Other(disc) ==
    /\ wf_pc = Idle
    /\ wf_started < MaxWorkflows
    /\ disc \in {"periodic_review", "adaptive_learning_update", "unknown"}
    /\ wf_started' = wf_started + 1
    /\ wf_request' = [agent |-> "coordinator", disc |-> disc]
    /\ wf_response' = AgentProcess("coordinator", disc, "ok")
    /\ wf_executed' = <<>>
    /\ UNCHANGED <<wf_pc, intern_data, has_resume, evaluation_type, workflow_result,
                   gather_pending, gather_results>>

CapabilityAgents == Agents \ {"coordinator"}

\* process() of a Capability Agent called on its own
Agent_Process(agent, disc, outcome) ==
    /\ wf_pc = Idle
    /\ wf_started < MaxWorkflows
    /\ agent \in CapabilityAgents
    /\ disc \in Discriminators(agent) \cup {"unknown"}
    /\ outcome \in OperationOutcomes
    /\ wf_started' = wf_started + 1
    /\ wf_request' = [agent |-> agent, disc |-> disc]
    /\ wf_response' = AgentProcess(agent, disc, outcome)
    /\ wf_executed' = <<>>
    /\ UNCHANGED <<wf_pc, intern_data, has_resume, evaluation_type, workflow_result,
                   gather_pending, gather_results>>

InitWF ==
    /\ wf_pc = Idle
    /\ intern_data = [id |-> CallerInternId, merged |-> {}]
    /\ has_resume = FALSE
    /\ evaluation_type = "code_submission"
    /\ workflow_result = NewWorkflowResult("none")
    /\ gather_pending = {}
    /\ gather_results = [m \in FanOut |-> Absent]
    /\ wf_request = [agent |-> "none", disc |-> "none"]
    /\ wf_response = NoResponse
    /\ wf_started = 0
    /\ wf_executed = <<>>

\* ------------------------------------------------------- AdvancedRateLimiter
Clients == {"c1", "c2"}
Tiers == {"standard", "premium", "ai_heavy"}

\* self.rate_limits, scaled: quotas of 100 / 500 / 50 requests in a window of
\* 3600 s become StandardQuota / PremiumQuota / AIHeavyQuota in WindowTicks
rate_limits(tier) ==
    CASE tier = "standard" -> [requests |-> StandardQuota, window |-> WindowTicks]
      [] tier = "premium" -> [requests |-> PremiumQuota, window |-> WindowTicks]
      [] OTHER -> [requests |-> AIHeavyQuota, window |-> WindowTicks]

\* the 3600 s of the hard block (line 142), the same length as the window
BlockTicks == WindowTicks

\* time.time(): seconds since the epoch, never 0
time_time == now + 1

\* the list comprehension that drops the timestamps that left the window
Prune(reqs, t, window) == SelectSeq(reqs, LAMBDA req_time : t - req_time < window)

\* the limit check of is_allowed with an off-by-one: one request too many
OverLimitStrict(n, limit) == n > limit

\* len(self.client_requests[client_id]) >= limit
OverLimit(n, limit) == n >= limit

\* sum(1 for req_time in ... if now - req_time < 60)
Violations(reqs, t) == Len(SelectSeq(reqs, LAMBDA req_time : t - req_time < MinuteTicks))

\* the violation test of is_allowed switched off: no caller is ever blocked
TooManyViolationsNever(violations, limit) == FALSE

\* violations > limit * 0.8
TooManyViolations(violations, limit) == violations * 10 > limit * 8

\* the hard block of client_id is in force at time t (lines 141-142)
Blocked(client_id, t) ==
    blocked_ips[client_id] > 0 /\ t - blocked_ips[client_id] < BlockTicks

\* the observers of one check: the admitted timestamps per (caller, tier)
\* still inside the window, the tiers the caller has used, the calls counted
Observe(client_id, tier, t, allowed) ==
    /\ rl_checks' = rl_checks + 1
    /\ rl_calls' = [rl_calls EXCEPT ![client_id] = @ + 1]
    /\ rl_last' = [client |-> client_id, tier |-> tier, allowed |-> allowed]
    /\ rl_tiers_used' = [rl_tiers_used EXCEPT ![client_id] = @ \cup {tier}]
    /\ rl_admitted' =
          [c \in Clients, tr \in Tiers |->
              IF c # client_id THEN rl_admitted[c, tr]
              ELSE LET kept == Prune(rl_admitted[c, tr], t, rate_limits(tr).window)
                   IN  IF tr = tier /\ allowed THEN Append(kept, t) ELSE kept]

\* AdvancedRateLimiter.is_allowed(client_id, tier)
is_allowed(client_id, tier) ==
    /\ rl_checks < MaxChecks
    /\ LET t == time_time
           window == rate_limits(tier).window
           limit == rate_limits(tier).requests
           pruned == Prune(client_requests[client_id], t, window)
       IN  IF Blocked(client_id, t)
           THEN \* return False at line 143
                /\ blocked_keys' = blocked_keys \cup {client_id}
                /\ UNCHANGED <<blocked_ips, client_requests, request_keys, rl_ever_blocked>>
                /\ Observe(client_id, tier, t, FALSE)
           ELSE /\ request_keys' = request_keys \cup {client_id}
                /\ IF OverLimit(Len(pruned), limit)
                   THEN /\ client_requests' = [client_requests EXCEPT ![client_id] = pruned]
                        /\ IF TooManyViolations(Violations(pruned, t), limit)
                           THEN /\ blocked_ips' = [blocked_ips EXCEPT ![client_id] = t]
                                /\ blocked_keys' = blocked_keys \cup {client_id}
                                /\ rl_ever_blocked' = [rl_ever_blocked EXCEPT ![client_id] = TRUE]
                           ELSE /\ blocked_ips' = [blocked_ips EXCEPT ![client_id] = 0]
                                /\ blocked_keys' =
                                      IF blocked_ips[client_id] > 0
                                      THEN blocked_keys \ {client_id}
                                      ELSE blocked_keys \cup {client_id}
                                /\ UNCHANGED rl_ever_blocked
                        /\ Observe(client_id, tier, t, FALSE)
                   ELSE /\ client_requests' = [client_requests EXCEPT ![client_id] = Append(pruned, t)]
                        /\ blocked_ips' = [blocked_ips EXCEPT ![client_id] = 0]
                        /\ blocked_keys' =
                              IF blocked_ips[client_id] > 0
                              THEN blocked_keys \ {client_id}
                              ELSE blocked_keys \cup {client_id}
                        /\ UNCHANGED rl_ever_blocked
                        /\ Observe(client_id, tier, t, TRUE)
    /\ UNCHANGED <<now, rl_remaining>>

\* limit - len(...) without the max(0, ...) around it
RemainingUnclamped(limit, n) == limit - n

\* max(0, limit - len(self.client_requests[client_id]))
Remaining(limit, n) == IF limit - n > 0 THEN limit - n ELSE 0

\* AdvancedRateLimiter.get_remaining(client_id, tier)
get_remaining(client_id, tier) ==
    /\ rl_checks < MaxChecks
    /\ rl_checks' = rl_checks + 1
    /\ LET t == time_time
           window == rate_limits(tier).window
           limit == rate_limits(tier).requests
           pruned == Prune(client_requests[client_id], t, window)
       IN  IF client_id \notin request_keys
           THEN /\ rl_remaining' = [client |-> client_id, tier |-> tier,
                                     remaining |-> limit]
                /\ UNCHANGED client_requests
           ELSE /\ client_requests' = [client_requests EXCEPT ![client_id] = pruned]
                /\ rl_remaining' = [client |-> client_id, tier |-> tier,
                                     remaining |-> Remaining(limit, Len(pruned))]
    /\ UNCHANGED <<now, request_keys, blocked_ips, blocked_keys, rl_calls, rl_last,
                   rl_tiers_used, rl_admitted, rl_ever_blocked>>

\* the clock of the rate limiter
TickRL ==
    /\ now < MaxClock
    /\ now' = now + 1
    /\ UNCHANGED <<cbVars, aiVars, wfVars, rlVars, cacheVars>>

NoCheck == [client |-> "none", tier |-> "none", allowed |-> FALSE]

NoRemaining == [client |-> "none", tier |-> "none", remaining |-> 0]

InitRL ==
    /\ client_requests = [c \in Clients |-> <<>>]
    /\ request_keys = {}
    /\ blocked_ips = [c \in Clients |-> 0]
    /\ blocked_keys = {}
    /\ rl_checks = 0
    /\ rl_calls = [c \in Clients |-> 0]
    /\ rl_last = NoCheck
    /\ rl_tiers_used = [c \in Clients |-> {}]
    /\ rl_admitted = [c \in Clients, tr \in Tiers |-> <<>>]
    /\ rl_ever_blocked = [c \in Clients |-> FALSE]
    /\ rl_remaining = NoRemaining

\* -------------------------------------------------------------- CacheService
\* keys and values are kept small: a key is a sequence of strings
PlainKeys == {<<"k1">>, <<"k2">>}
PlainValues == {[v |-> "v1"], [v |-> "v2"]}

\* ttl arguments, in ticks; 0 stands for None ("if ttl:" is false for both)
TTLs == {0, 1, 2}

\* a key a store does not hold; NoTime as expiry: the entry never expires
Missing == [missing |-> TRUE]

\* a store as a set of entries, one per key at most: the entry of a key,
\* the store with an entry written, the store without a key
EntryOf(store, key) ==
    IF \E e \in store : e.key = key
    THEN CHOOSE e \in store : e.key = key
    ELSE Missing

PutEntry(store, entry) == {e \in store : e.key # entry.key} \cup {entry}

DropEntry(store, key) == {e \in store : e.key # key}

\* Redis: the value stored under key, None once its time to live is over
RedisGet(key) ==
    IF EntryOf(redis_store, key) = Missing THEN Missing
    ELSE IF /\ EntryOf(redis_store, key).expires # NoTime
            /\ now >= EntryOf(redis_store, key).expires
    THEN Missing
    ELSE EntryOf(redis_store, key).value

\* pickle.loads(pickle.dumps(value)): an equal copy of the value
Pickled(value) == [pickled |-> value]
Unpickled(bytes) == bytes.pickled

\* self.local_cache, a dict in insertion order, as a sequence of items
LocalHas(key) == \E i \in 1..Len(local_cache) : local_cache[i].key = key

LocalGet(key) ==
    IF LocalHas(key)
    THEN (CHOOSE item \in {local_cache[i] : i \in 1..Len(local_cache)} :
              item.key = key).value
    ELSE Missing

\* self.local_cache[key] = value: an existing key keeps its position
LocalPut(cache, key, value) ==
    IF \E i \in 1..Len(cache) : cache[i].key = key
    THEN [i \in 1..Len(cache) |->
             IF cache[i].key = key THEN [key |-> key, value |-> value] ELSE cache[i]]
    ELSE Append(cache, [key |-> key, value |-> value])

\* self.local_cache.pop(key, None) / del self.local_cache[key]
LocalPop(cache, key) == SelectSeq(cache, LAMBDA item : item.key # key)

\* _manage_local_cache_size: at the cap, drop the oldest tenth of the cap
\* (100 entries of 1000; one entry of a cap below ten)
EvictCount == IF LocalCacheMaxSize \div 10 > 0 THEN LocalCacheMaxSize \div 10 ELSE 1

ManageLocalCacheSize(cache) ==
    IF Len(cache) >= LocalCacheMaxSize
    THEN SubSeq(cache, EvictCount + 1, Len(cache))
    ELSE cache

\* a timer of _expire_local_key is due
TimerDue == \E timer \in local_timers : timer.at <= now

\* the start of a cache operation: the service is initialized, the event
\* loop has run the timers that were due
CacheOp ==
    /\ cache_initialized
    /\ ~TimerDue
    /\ cache_ops < MaxCacheOps
    /\ cache_ops' = cache_ops + 1

\* CacheService.initialize: Redis answers the ping, or does not
Initialize(reachable) ==
    /\ ~cache_initialized
    /\ cache_initialized' = TRUE
    /\ redis_client' = IF reachable THEN "connected" ELSE "none"
    /\ UNCHANGED <<now, redis_store, local_cache, local_timers, cache_ops,
                   cache_last, cache_truth, memoVars>>

\* what set does to the stores (lines 72-99); fails: Redis raises
SetStores(key, value, ttl, fails) ==
    IF redis_client = "connected"
    THEN /\ redis_store' =
               IF fails THEN redis_store
               ELSE PutEntry(redis_store,
                        [key |-> key, value |-> Pickled(value),
                         expires |-> IF ttl # 0 THEN now + ttl ELSE NoTime])
         /\ UNCHANGED <<local_cache, local_timers>>
    ELSE /\ local_cache' = LocalPut(ManageLocalCacheSize(local_cache), key, value)
         /\ local_timers' =
               IF ttl # 0 THEN local_timers \cup {[key |-> key, at |-> now + ttl]}
               ELSE local_timers
         /\ UNCHANGED redis_store

\* set returned True
SetSucceeds(fails) == redis_client # "connected" \/ ~fails

\* the latest value set under a key, with the time and the ttl of that set
Truth(key, value, ttl) == [key |-> key, value |-> value, set_at |-> now, ttl |-> ttl]

\* CacheService.set(key, value, ttl)
Set(key, value, ttl, fails) ==
    /\ CacheOp
    /\ SetStores(key, value, ttl, fails)
    /\ cache_truth' = IF SetSucceeds(fails)
                      THEN PutEntry(cache_truth, Truth(key, value, ttl))
                      ELSE cache_truth
    /\ UNCHANGED <<now, cache_initialized, redis_client, cache_last, memoVars>>

\* what get returns (lines 46-62); Missing stands for the default, None
GetValue(key, fails) ==
    IF redis_client = "connected"
    THEN IF fails THEN Missing
         ELSE IF RedisGet(key) # Missing THEN Unpickled(RedisGet(key))
         ELSE LocalGet(key)
    ELSE LocalGet(key)

\* CacheService.get(key)
Get(key, fails) ==
    /\ CacheOp
    /\ cache_last' = [op |-> "get", key |-> key, value |-> GetValue(key, fails),
                      failed |-> (redis_client = "connected" /\ fails)]
    /\ UNCHANGED <<now, cache_initialized, redis_client, redis_store, local_cache,
                   local_timers, cache_truth, memoVars>>

\* what delete does to the stores (lines 103-118)
DeleteStores(key, fails) ==
    IF redis_client = "connected" /\ fails
    THEN UNCHANGED <<redis_store, local_cache>>
    ELSE /\ redis_store' = IF redis_client = "connected"
                           THEN DropEntry(redis_store, key)
                           ELSE redis_store
         /\ local_cache' = LocalPop(local_cache, key)

\* CacheService.delete(key)
Delete(key, fails) ==
    /\ CacheOp
    /\ DeleteStores(key, fails)
    /\ cache_truth' = IF redis_client = "connected" /\ fails THEN cache_truth
                      ELSE DropEntry(cache_truth, key)
    /\ UNCHANGED <<now, cache_initialized, redis_client, local_timers, cache_last, memoVars>>

\* the keys of counters, and a counter value
CounterKeys == {<<"n1">>, <<"n2">>}
Counter(n) == [n |-> n]

\* CacheService.increment(key, amount, ttl) (lines 182-199): Redis counts
\* and, given a ttl, sets the expiry; the local fallback counts in
\* self.local_cache, without the size check of set and without any ttl
Increment(key, amount, ttl, fails) ==
    /\ CacheOp
    /\ IF redis_client = "connected"
       THEN /\ redis_store' =
                  IF fails THEN redis_store
                  ELSE PutEntry(redis_store,
                          [key |-> key,
                           value |-> Counter((IF RedisGet(key) = Missing THEN 0
                                              ELSE RedisGet(key).n) + amount),
                           expires |-> IF ttl # 0 THEN now + ttl
                                       ELSE IF RedisGet(key) = Missing THEN NoTime
                                       ELSE EntryOf(redis_store, key).expires])
            /\ UNCHANGED local_cache
       ELSE /\ local_cache' =
                  LocalPut(local_cache, key,
                           Counter((IF LocalHas(key) THEN LocalGet(key).n ELSE 0) + amount))
            /\ UNCHANGED redis_store
    /\ UNCHANGED <<now, cache_initialized, redis_client, local_timers, cache_last,
                   cache_truth, memoVars>>

\* CacheService._expire_local_key after its sleep: the key is popped,
\* whichever set stored the value it holds now
ExpireLocalKey(timer) ==
    /\ timer \in local_timers
    /\ timer.at <= now
    /\ local_cache' = LocalPop(local_cache, timer.key)
    /\ local_timers' = local_timers \ {timer}
    /\ UNCHANGED <<now, cache_initialized, redis_client, redis_store, cache_ops,
                   cache_last, cache_truth, memoVars>>

\* strings whose characters matter are sequences of one-character strings
Models == {<<"m">>, <<"m", ":", "x">>}
Prompts == {<<"p">>, <<"x", ":", "p">>}

\* hashlib.sha256(text).hexdigest(): the digest is written as the text it
\* was computed from, so two digests are equal exactly when the texts are
Sha256(text) == <<"sha256">> \o text

\* f"{model}:{prompt}", hashed, behind the prefix "ai_response:"
AIResponseKey(prompt, model) ==
    <<"ai_response:">> \o Sha256(model \o <<":">> \o prompt)

\* the response the AI gave to a prompt under a model
ResponseTo(prompt, model) == [prompt |-> prompt, model |-> model]

\* the arguments of the decorated function, its result for each of them
MemoArgs == {"a1", "a2"}
func(args) == IF args = "a1" THEN [v |-> "v1"] ELSE None

\* key_prefix, func.__name__, str(args), str(sorted(kwargs.items())), hashed
MemoKey(args) == Sha256(<<"prefix", ":", "func", ":", args, ":", "[]">>)

\* self.set(key, value, ttl) called from another method of the service
StoreSet(key, value, ttl, fails) ==
    /\ SetStores(key, value, ttl, fails)
    /\ cache_truth' = IF SetSucceeds(fails)
                      THEN PutEntry(cache_truth, Truth(key, value, ttl))
                      ELSE cache_truth

\* CacheService.cache_ai_response(prompt, response, model, ttl)
CacheAIResponse(prompt, model, ttl, fails) ==
    /\ CacheOp
    /\ StoreSet(AIResponseKey(prompt, model),
                [response |-> ResponseTo(prompt, model), model |-> model,
                 prompt_hash |-> Sha256(model \o <<":">> \o prompt),
                 cached_at |-> now, ttl |-> ttl],
                ttl, fails)
    /\ UNCHANGED <<now, cache_initialized, redis_client, cache_last, memoVars>>

\* the entry get_cached_ai_response reads is still valid (lines 166-170)
StillValid(cached_data) == now - cached_data.cached_at < cached_data.ttl

\* CacheService.get_cached_ai_response(prompt, model)
GetCachedAIResponse(prompt, model, fails) ==
    LET cache_key == AIResponseKey(prompt, model)
        cached_data == GetValue(cache_key, fails)
    IN  /\ CacheOp
        /\ IF cached_data = Missing
           THEN /\ cache_last' = [op |-> "get_cached_ai_response", key |-> cache_key,
                                  value |-> Missing, prompt |-> prompt, model |-> model]
                /\ UNCHANGED <<redis_store, local_cache, cache_truth>>
           ELSE IF StillValid(cached_data)
           THEN /\ cache_last' = [op |-> "get_cached_ai_response", key |-> cache_key,
                                  value |-> cached_data.response,
                                  prompt |-> prompt, model |-> model]
                /\ UNCHANGED <<redis_store, local_cache, cache_truth>>
           ELSE /\ cache_last' = [op |-> "get_cached_ai_response", key |-> cache_key,
                                  value |-> Missing, prompt |-> prompt, model |-> model]
                /\ DeleteStores(cache_key, FALSE)
                /\ cache_truth' = DropEntry(cache_truth, cache_key)
        /\ UNCHANGED <<now, cache_initialized, redis_client, local_timers, memoVars>>

\* the ttl the decorator is applied with (3600 seconds by default)
MemoTTL == 2

\* "if cached_result is not None": get answers None for a key it does not
\* hold and for a stored None alike
IsNone(value) == value = Missing \/ value = None

\* cache_result, async_wrapper up to the call of the function: the result
\* is read from the cache, and returned if there is one
Memo_Call(p, args, fails) ==
    LET cached_result == GetValue(MemoKey(args), fails)
    IN  /\ CacheOp
        /\ memo_pc[p] = "idle"
        /\ memo_args' = [memo_args EXCEPT ![p] = args]
        /\ IF ~IsNone(cached_result)
           THEN /\ memo_answer' = [memo_answer EXCEPT ![p] = cached_result]
                /\ UNCHANGED memo_pc
           ELSE /\ memo_pc' = [memo_pc EXCEPT ![p] = "executing"]
                /\ memo_answer' = [memo_answer EXCEPT ![p] = Missing]
        /\ UNCHANGED <<now, cache_initialized, redis_client, redis_store, local_cache,
                       local_timers, cache_last, cache_truth, memo_runs>>

\* cache_result, async_wrapper from the return of the function: the result
\* is stored and returned
Memo_Executed(p, fails) ==
    LET args == memo_args[p]
        result == func(args)
    IN  /\ memo_pc[p] = "executing"
        /\ cache_initialized
        /\ ~TimerDue
        /\ StoreSet(MemoKey(args), result, MemoTTL, fails)
        /\ memo_pc' = [memo_pc EXCEPT ![p] = "idle"]
        /\ memo_answer' = [memo_answer EXCEPT ![p] = result]
        /\ memo_runs' = [memo_runs EXCEPT ![args] = @ + 1]
        /\ UNCHANGED <<now, cache_initialized, redis_client, cache_ops, cache_last,
                       memo_args>>

\* the clock of the cache, from its start-up on: a due timer runs before
\* time moves on
TickCache ==
    /\ cache_initialized
    /\ ~TimerDue
    /\ now < MaxClock
    /\ now' = now + 1
    /\ UNCHANGED <<cbVars, aiVars, wfVars, rlVars, cacheVars>>

NoGet == [op |-> "none", key |-> <<>>, value |-> Missing]

InitCache ==
    /\ cache_initialized = FALSE
    /\ redis_client = "none"
    /\ redis_store = {}
    /\ local_cache = <<>>
    /\ local_timers = {}
    /\ cache_ops = 0
    /\ cache_last = NoGet
    /\ cache_truth = {}
    /\ memo_pc = [p \in Callers |-> "idle"]
    /\ memo_args = [p \in Callers |-> "a1"]
    /\ memo_answer = [p \in Callers |-> Missing]
    /\ memo_runs = [args \in MemoArgs |-> 0]

Init ==
    /\ now = 0
    /\ InitCB
    /\ InitAI
    /\ InitWF
    /\ InitRL
    /\ InitCache

NextCB ==
    \/ \E p \in Callers : CallWithFallback_Start(p) /\ UNCHANGED <<aiVars, wfVars, rlVars, cacheVars>>
    \/ \E p \in Callers : CallWithFallback_Success(p) /\ UNCHANGED <<aiVars, wfVars, rlVars, cacheVars>>
    \/ \E p \in Callers : CallWithFallback_Failure(p) /\ UNCHANGED <<aiVars, wfVars, rlVars, cacheVars>>
    \/ \E p \in Callers : CallWithFallback_Cancelled(p) /\ UNCHANGED <<aiVars, wfVars, rlVars, cacheVars>>
    \/ Reset /\ UNCHANGED <<aiVars, wfVars, rlVars, cacheVars>>
    \/ TickCB

SpecCB == Init /\ [][NextCB]_vars

TickAI == Tick /\ UNCHANGED <<cbVars, aiVars, wfVars, rlVars, cacheVars>>

NextAI ==
    \/ \E p \in Callers, op \in SafeCallOps, valid \in BOOLEAN :
          SafeCallOp_Start(p, op, valid) /\ UNCHANGED <<cbVars, wfVars, rlVars, cacheVars>>
    \/ \E p \in Callers : SafeOpenAICall_Retry(p) /\ UNCHANGED <<cbVars, wfVars, rlVars, cacheVars>>
    \/ \E p \in Callers, parsed \in BOOLEAN :
          SafeOpenAICall_Response(p, parsed) /\ UNCHANGED <<cbVars, wfVars, rlVars, cacheVars>>
    \/ \E p \in Callers, kind \in ErrorKinds :
          SafeOpenAICall_Error(p, kind) /\ UNCHANGED <<cbVars, wfVars, rlVars, cacheVars>>
    \/ \E p \in Callers, op \in AgentOps, valid \in BOOLEAN :
          AgentOp_Start(p, op, valid) /\ UNCHANGED <<cbVars, wfVars, rlVars, cacheVars>>
    \/ \E p \in Callers, outcome \in AgentOutcomes :
          AgentOp_Done(p, outcome) /\ UNCHANGED <<cbVars, wfVars, rlVars, cacheVars>>
    \/ TickAI

SpecAI == Init /\ [][NextAI]_vars

NextWF ==
    \/ \E resume \in BOOLEAN : Process_Onboarding(resume) /\ UNCHANGED <<now, cbVars, aiVars, rlVars, cacheVars>>
    \/ \E outcome \in MethodOutcomes :
          Onboarding_StepDone(outcome) /\ UNCHANGED <<now, cbVars, aiVars, rlVars, cacheVars>>
    \/ \E etype \in EvaluationTypes :
          Process_Submission(etype) /\ UNCHANGED <<now, cbVars, aiVars, rlVars, cacheVars>>
    \/ \E outcome \in MethodOutcomes :
          Submission_StepDone(outcome) /\ UNCHANGED <<now, cbVars, aiVars, rlVars, cacheVars>>
    \/ Process_Evaluation /\ UNCHANGED <<now, cbVars, aiVars, rlVars, cacheVars>>
    \/ \E member \in FanOut, outcome \in MethodOutcomes :
          Evaluation_MemberDone(member, outcome) /\ UNCHANGED <<now, cbVars, aiVars, rlVars, cacheVars>>
    \/ Evaluation_Gathered /\ UNCHANGED <<now, cbVars, aiVars, rlVars, cacheVars>>
    \/ \E disc \in {"periodic_review", "adaptive_learning_update", "unknown"} :
          Process_Other(disc) /\ UNCHANGED <<now, cbVars, aiVars, rlVars, cacheVars>>
    \/ \E agent \in CapabilityAgents :
          \E disc \in Discriminators(agent) \cup {"unknown"}, outcome \in OperationOutcomes :
             Agent_Process(agent, disc, outcome) /\ UNCHANGED <<now, cbVars, aiVars, rlVars, cacheVars>>

SpecWF == Init /\ [][NextWF]_vars

NextRL ==
    \/ \E client_id \in Clients, tier \in Tiers :
          is_allowed(client_id, tier) /\ UNCHANGED <<cbVars, aiVars, wfVars, cacheVars>>
    \/ \E client_id \in Clients, tier \in Tiers :
          get_remaining(client_id, tier) /\ UNCHANGED <<cbVars, aiVars, wfVars, cacheVars>>
    \/ TickRL

SpecRL == Init /\ [][NextRL]_vars

NextCache ==
    \/ \E reachable \in BOOLEAN :
          Initialize(reachable) /\ UNCHANGED <<cbVars, aiVars, wfVars, rlVars>>
    \/ \E timer \in local_timers :
          ExpireLocalKey(timer) /\ UNCHANGED <<cbVars, aiVars, wfVars, rlVars>>
    \/ \E key \in PlainKeys, value \in PlainValues, ttl \in TTLs, fails \in BOOLEAN :
          Set(key, value, ttl, fails) /\ UNCHANGED <<cbVars, aiVars, wfVars, rlVars>>
    \/ \E key \in PlainKeys, fails \in BOOLEAN :
          Get(key, fails) /\ UNCHANGED <<cbVars, aiVars, wfVars, rlVars>>
    \/ \E key \in PlainKeys \cup CounterKeys, fails \in BOOLEAN :
          Delete(key, fails) /\ UNCHANGED <<cbVars, aiVars, wfVars, rlVars>>
    \/ \E key \in CounterKeys, ttl \in {0, 1}, fails \in BOOLEAN :
          Increment(key, 1, ttl, fails) /\ UNCHANGED <<cbVars, aiVars, wfVars, rlVars>>
    \/ TickCache

SpecCache == Init /\ [][NextCache]_vars

NextAICache ==
    \/ \E reachable \in BOOLEAN :
          Initialize(reachable) /\ UNCHANGED <<cbVars, aiVars, wfVars, rlVars>>
    \/ \E timer \in local_timers :
          ExpireLocalKey(timer) /\ UNCHANGED <<cbVars, aiVars, wfVars, rlVars>>
    \/ \E prompt \in Prompts, model \in Models, ttl \in TTLs \ {0}, fails \in BOOLEAN :
          CacheAIResponse(prompt, model, ttl, fails) /\ UNCHANGED <<cbVars, aiVars, wfVars, rlVars>>
    \/ \E prompt \in Prompts, model \in Models, fails \in BOOLEAN :
          GetCachedAIResponse(prompt, model, fails) /\ UNCHANGED <<cbVars, aiVars, wfVars, rlVars>>
    \/ TickCache

SpecAICache == Init /\ [][NextAICache]_vars

NextMemo ==
    \/ \E reachable \in BOOLEAN :
          Initialize(reachable) /\ UNCHANGED <<cbVars, aiVars, wfVars, rlVars>>
    \/ \E timer \in local_timers :
          ExpireLocalKey(timer) /\ UNCHANGED <<cbVars, aiVars, wfVars, rlVars>>
    \/ \E p \in Callers, args \in MemoArgs, fails \in BOOLEAN :
          Memo_Call(p, args, fails) /\ UNCHANGED <<cbVars, aiVars, wfVars, rlVars>>
    \/ \E p \in Callers, fails \in BOOLEAN :
          Memo_Executed(p, fails) /\ UNCHANGED <<cbVars, aiVars, wfVars, rlVars>>
    \/ TickCache

SpecMemo == Init /\ [][NextMemo]_vars

\* ------------------------------------------------ claims on AICircuitBreaker
InFlight(p) == cb_pc[p] = "await_func"

\* C1: once failure_threshold or more calls in a row have failed, the breaker
\* is OPEN, and until timeout_seconds have passed since the last of those
\* failures no call is let through to the protected function.
C1_OpenRejectsUntilTimeout ==
    /\ (cb_run >= failure_threshold /\ now < cb_deadline) => state = OPEN
    /\ \A p \in Callers : InFlight(p) => ~cb_owed[p]

\* the first half of C1 has a case: a run of failures left the breaker OPEN
C1_RunOpened ==
    cb_run >= failure_threshold /\ now < cb_deadline /\ state = OPEN

\* C2: of the calls admitted in HALF_OPEN at most one is awaiting the
\* protected function at any time (a single probe).
C2_SingleProbe ==
    Cardinality({p \in Callers : InFlight(p) /\ cb_admit[p] = HALF_OPEN}) <= 1

C4_SuccessResetsCount ==
    /\ ai_run = 0 => circuit_breaker_failures = 0
    /\ circuit_breaker_failures >= circuit_breaker_threshold
          => ai_run >= circuit_breaker_threshold

\* the fallback flag of a returned dictionary, wherever the operation keeps it
FlaggedFallback(r) ==
    /\ "status" \in DOMAIN r
    /\ r.status = "fallback"
    /\ \/ "fallback_used" \in DOMAIN r /\ r.fallback_used
       \/ "analysis_metadata" \in DOMAIN r /\ r.analysis_metadata.fallback_used
       \/ "assessment_metadata" \in DOMAIN r /\ r.assessment_metadata.fallback_used

WorkflowReturned(workflow) ==
    /\ wf_request = [agent |-> "coordinator", disc |-> workflow]
    /\ wf_pc = Idle
    /\ wf_response # NoResponse

\* the data of the returned workflow Envelope holds the Envelope of every
\* agent call that completed
KeepsExecuted(data) ==
    /\ data # None
    /\ \A i \in 1..Len(wf_executed) :
          data.results[wf_executed[i].key] = wf_executed[i].envelope

\* C5: in execute_onboarding_workflow no step runs after a step returned a
\* failure Envelope, and the workflow whose last step failed returns
\* success = false with a Workflow Result holding exactly the Envelopes of
\* the steps up to that one.
C5_HaltsAtFailingStep ==
    wf_request.disc = "new_intern_onboarding" =>
        /\ \A i \in 1..(Len(wf_executed) - 1) : wf_executed[i].envelope.success
        /\ (/\ WorkflowReturned("new_intern_onboarding")
            /\ Len(wf_executed) > 0
            /\ ~wf_executed[Len(wf_executed)].envelope.success)
           => /\ ~wf_response.envelope.success
              /\ KeepsExecuted(wf_response.envelope.data)
              /\ Len(wf_response.envelope.data.steps_completed) = Len(wf_executed)

\* C6: when exactly one member of the fan-out of
\* execute_comprehensive_evaluation threw and the other two returned success
\* Envelopes, the returned result has an entry for each of the three
\* members: a failure Envelope for the one that threw, the success Envelopes
\* of the other two.
C6_FanOutKeepsAll ==
    (/\ WorkflowReturned("comprehensive_evaluation")
     /\ Cardinality({m \in FanOut : gather_results[m].raised}) = 1
     /\ \A m \in FanOut : ~gather_results[m].raised => gather_results[m].envelope.success)
    => /\ wf_response.envelope.data # None
       /\ \A m \in FanOut :
             /\ wf_response.envelope.data.results[m] # Absent
             /\ wf_response.envelope.data.results[m].success = ~gather_results[m].raised

\* C7: when a coordinator workflow returns, the Workflow Result in its
\* Envelope holds the Envelope of every agent call that completed.
C7_ResultKeepsExecuted ==
    (/\ \E w \in {"new_intern_onboarding", "task_submission_processing",
                   "comprehensive_evaluation"} : WorkflowReturned(w)
     /\ Len(wf_executed) > 0)
    => KeepsExecuted(wf_response.envelope.data)

\* C9: process() of the coordinator and of every Capability Agent returns an
\* Envelope, whatever the discriminator, and for a discriminator it does not
\* know a failure Envelope with its 'Invalid ...' message.
C9_ProcessReturnsEnvelope ==
    /\ ~wf_response.raised
    /\ (wf_request.disc = "unknown" /\ wf_pc = Idle) =>
          /\ ~wf_response.envelope.success
          /\ wf_response.envelope.message = InvalidMessage(wf_request.agent)

\* ------------------------------------------- claims on AdvancedRateLimiter
\* admitted requests of the caller under the tier that are inside the window
InWindow(client_id, tier) ==
    Len(Prune(rl_admitted[client_id, tier], time_time, rate_limits(tier).window))

\* this step is an is_allowed call of a caller that has used one tier only
SingleTierCheck ==
    /\ rl_calls' # rl_calls
    /\ rl_tiers_used'[rl_last'.client] = {rl_last'.tier}

\* C10: for a caller that uses one tier of quota N, the first N requests
\* are admitted, a request that finds N admitted requests inside the window
\* is rejected, and a request that finds none inside the window is admitted
\* once the caller's hard block, if one was set, has expired.
C10_QuotaPerWindow ==
    [][ SingleTierCheck =>
          LET c == rl_last'.client
              N == rate_limits(rl_last'.tier).requests
              n == InWindow(c, rl_last'.tier)
          IN  /\ rl_calls[c] < N => rl_last'.allowed
              /\ n >= N => ~rl_last'.allowed
              /\ (n = 0 /\ ~Blocked(c, time_time)) => rl_last'.allowed
      ]_vars

\* a caller that was hard-blocked has a request admitted again
C10_AdmittedAfterBlock ==
    /\ rl_last.allowed
    /\ rl_ever_blocked[rl_last.client]
    /\ rl_tiers_used[rl_last.client] = {rl_last.tier}

\* C10 as stated: once the window has fully elapsed since the admitted
\* requests, the next request is admitted.
C10_AdmittedOnceWindowElapsed ==
    [][ SingleTierCheck =>
          LET c == rl_last'.client
              N == rate_limits(rl_last'.tier).requests
              n == InWindow(c, rl_last'.tier)
          IN  /\ rl_calls[c] < N => rl_last'.allowed
              /\ n >= N => ~rl_last'.allowed
              /\ n = 0 => rl_last'.allowed
      ]_vars

\* C11: an is_allowed call of a caller that is not hard-blocked is rejected
\* under a tier only when as many requests as the quota of that tier were
\* admitted for the caller under that same tier inside the window.
C11_PerTierBuckets ==
    [][ (/\ rl_calls' # rl_calls
         /\ ~rl_last'.allowed
         /\ ~Blocked(rl_last'.client, time_time))
        => InWindow(rl_last'.client, rl_last'.tier)
              >= rate_limits(rl_last'.tier).requests
      ]_vars

\* admitted requests of the caller, of whatever tier, inside the window /
\* inside the last minute
AdmittedInWindow(client_id) ==
    InWindow(client_id, "standard") + InWindow(client_id, "premium")
        + InWindow(client_id, "ai_heavy")

AdmittedInMinute(client_id) ==
    Violations(rl_admitted[client_id, "standard"], time_time)
        + Violations(rl_admitted[client_id, "premium"], time_time)
        + Violations(rl_admitted[client_id, "ai_heavy"], time_time)

\* the request finds the quota of its tier reached by the caller's admitted
\* requests, more than 80% of the quota admitted within the last minute
QuotaReachedInBurst(client_id, tier) ==
    /\ AdmittedInWindow(client_id) >= rate_limits(tier).requests
    /\ AdmittedInMinute(client_id) * 10 > rate_limits(tier).requests * 8

\* C12: a request that is rejected because the caller's admitted requests
\* reach the quota of its tier, more than 80% of that quota within the last
\* minute, puts the caller under a hard block; no other request sets one.
\* While the block is less than an hour old every is_allowed call of the
\* caller returns false and leaves the block as it is, and the first call
\* after the hour is admitted.
C12_HardBlock ==
    [][ rl_calls' # rl_calls =>
          LET c == rl_last'.client
              t == time_time
          IN  /\ Blocked(c, t) =>
                    ~rl_last'.allowed /\ blocked_ips'[c] = blocked_ips[c]
              /\ (~Blocked(c, t) /\ QuotaReachedInBurst(c, rl_last'.tier)) =>
                    ~rl_last'.allowed /\ blocked_ips'[c] = t
              /\ (~Blocked(c, t) /\ ~QuotaReachedInBurst(c, rl_last'.tier)) =>
                    blocked_ips'[c] = 0
              /\ (blocked_ips[c] > 0 /\ ~Blocked(c, t)) => rl_last'.allowed
      ]_vars

\* a call made while the caller's hard block was in force has been rejected
C12_RejectedWhileBlocked ==
    /\ rl_last.client \in Clients
    /\ ~rl_last.allowed
    /\ rl_calls[rl_last.client] >= 3
    /\ blocked_ips[rl_last.client] > 0
    /\ blocked_ips[rl_last.client] < time_time
    /\ Blocked(rl_last.client, time_time)

\* C12 as stated: the request with which a caller that uses one tier exceeds
\* 80% of the tier's quota within one minute puts the caller under the hard
\* block.
C12_BlockedAbove80Percent ==
    [][ (/\ SingleTierCheck
         /\ (AdmittedInMinute(rl_last'.client) + 1) * 10
               > rate_limits(rl_last'.tier).requests * 8)
        => /\ blocked_ips'[rl_last'.client] > 0
           /\ time_time - blocked_ips'[rl_last'.client] < BlockTicks
      ]_vars

\* C13: get_remaining(caller, tier) returns the quota of the tier minus the
\* number of the caller's admitted timestamps that is_allowed counts at that
\* instant (never less than 0), and it changes nothing that a later result
\* depends on: it leaves the blocks alone, creates no record, and the result
\* of every is_allowed call of a caller that is not blocked is decided by
\* the timestamps that earlier is_allowed calls admitted, however many
\* get_remaining calls came in between.
C13_RemainingIsRead ==
    [][ /\ (rl_checks' # rl_checks /\ rl_calls' = rl_calls) =>
              LET c == rl_remaining'.client
                  limit == rate_limits(rl_remaining'.tier).requests
              IN  /\ rl_remaining'.remaining =
                        (IF AdmittedInWindow(c) < limit
                         THEN limit - AdmittedInWindow(c) ELSE 0)
                  /\ blocked_ips' = blocked_ips
                  /\ blocked_keys' = blocked_keys
                  /\ request_keys' = request_keys
        /\ (rl_calls' # rl_calls /\ ~Blocked(rl_last'.client, time_time)) =>
              rl_last'.allowed =
                  (AdmittedInWindow(rl_last'.client)
                      < rate_limits(rl_last'.tier).requests)
      ]_vars

\* get_remaining was called for a caller with a request in the window and
\* a later is_allowed call of that caller was admitted
C13_CheckedAfterRead ==
    /\ rl_remaining.client \in Clients
    /\ rl_remaining.remaining < rate_limits(rl_remaining.tier).requests
    /\ rl_last.client = rl_remaining.client
    /\ rl_calls[rl_last.client] >= 2
    /\ rl_last.allowed
    /\ Len(client_requests[rl_last.client]) + rl_remaining.remaining
          > rate_limits(rl_remaining.tier).requests


\* ------------------------------------------------------ claims on CacheService
\* what a key should answer: the latest value set under it while the ttl of
\* that set has not run out, nothing otherwise
Expected(key) ==
    IF EntryOf(cache_truth, key) = Missing THEN Missing
    ELSE IF \/ EntryOf(cache_truth, key).ttl = 0
            \/ now - EntryOf(cache_truth, key).set_at < EntryOf(cache_truth, key).ttl
    THEN EntryOf(cache_truth, key).value
    ELSE Missing

\* C14: whatever sets came before, also a later set that overwrote an earlier
\* one with another ttl, a get that Redis did not fail returns the latest
\* value set under the key while the ttl of that set has not run out, and
\* nothing once it has, without any delete
C14_LatestValueWithinTTL ==
    [][ \A key \in PlainKeys :
           Get(key, FALSE) => cache_last'.value = Expected(key)
      ]_vars


\* another call of the decorated function with the same arguments is
\* executing the function right now
ExecutingFor(args, p) ==
    \E q \in Callers \ {p} : memo_pc[q] = "executing" /\ memo_args[q] = args

\* the result of an earlier identical call is in the cache and its ttl has
\* not run out
ResultCached(args) ==
    /\ EntryOf(cache_truth, MemoKey(args)) # Missing
    /\ now - EntryOf(cache_truth, MemoKey(args)).set_at < MemoTTL

\* C15: a call of a decorated function whose arguments another call has
\* already run with (its result cached and not expired), or is running
\* with right now, does not execute the function again: it is answered the
\* result of that call, whatever the result is
C15_OneExecutionPerArguments ==
    [][ \A p \in Callers, args \in MemoArgs :
           (Memo_Call(p, args, FALSE) /\ (ResultCached(args) \/ ExecutingFor(args, p)))
              => /\ memo_pc'[p] = "idle"
                 /\ memo_answer'[p] = func(args)
      ]_vars


\* C16: the key of the AI-response cache separates every two different
\* (model, prompt) pairs, so a response that get_cached_ai_response returns
\* is the response that was stored for the very model and prompt asked for
C16_KeyInjective ==
    (cache_last.op = "get_cached_ai_response" /\ cache_last.value # Missing)
        => cache_last.value = ResponseTo(cache_last.prompt, cache_last.model)


\* ------------------------------------------ claims on AIService.safe_openai_call
\* the errors of the model service that another attempt cannot cure
NonRetryableKinds == {"AuthenticationError", "InvalidRequestError",
                      "InsufficientQuotaError"}

\* caller p makes an attempt of safe_openai_call: the first one of an
\* operation, or one after a back-off
AttemptBy(p) ==
    \/ \E op \in SafeCallOps : SafeCallOp_Start(p, op, TRUE)
    \/ SafeOpenAICall_Retry(p)

\* C17: an attempt that ends with a bad-request, authentication or
\* quota-exhausted error, or that the open circuit breaker rejects, is the
\* only attempt of its call: no back-off and no further attempt follows it
C17_NonRetryableNotRetried ==
    [][ \A p \in Callers :
           /\ \A kind \in NonRetryableKinds :
                 SafeOpenAICall_Error(p, kind) => ai_pc'[p] # "backoff"
           /\ (AttemptBy(p) /\ IsCircuitBreakerOpen) => ai_pc'[p] # "backoff"
      ]_vars

\* caller p's request goes out to the model service in this step
Dispatched(p) == ai_pc[p] # "await_acreate" /\ ai_pc'[p] = "await_acreate"

\* C18: a request goes out to the model service only in a call that has
\* consulted the response cache and consumed the rate limiter before the
\* breaker check, and a successful answer is written to the cache
C18_GatesBeforeNetwork ==
    [][ \A p \in Callers :
           /\ Dispatched(p) => (cache_ops' > cache_ops /\ rl_checks' > rl_checks)
           /\ (\E parsed \in BOOLEAN : SafeOpenAICall_Response(p, parsed))
                 => cache_truth' # cache_truth
      ]_vars

\* C19: a call that is cancelled while it awaits the function it dispatched
\* is counted as a failure by the breaker: the failure counters go up by one
C19_CancelledCountsAsFailure ==
    [][ \A p \in Callers :
           CallWithFallback_Cancelled(p)
              => /\ total_failures' = total_failures + 1
                 /\ failure_count' = failure_count + 1
      ]_vars

\* C20: one invocation of safe_openai_call, its retries included, records at
\* most one failure to the breaker
C20_AtMostOneFailurePerInvocation ==
    \A p \in Callers : ai_recorded[p] <= 1


\* the operations of AIService that call safe_openai_call, taken alone and
\* within one tick of the clock (the breaker's timeout does not run out
\* while they are under way)
NextSafeCall ==
    \/ \E p \in Callers, op \in SafeCallOps, valid \in BOOLEAN :
          SafeCallOp_Start(p, op, valid) /\ UNCHANGED <<cbVars, wfVars, rlVars, cacheVars>>
    \/ \E p \in Callers : SafeOpenAICall_Retry(p) /\ UNCHANGED <<cbVars, wfVars, rlVars, cacheVars>>
    \/ \E p \in Callers, parsed \in BOOLEAN :
          SafeOpenAICall_Response(p, parsed) /\ UNCHANGED <<cbVars, wfVars, rlVars, cacheVars>>
    \/ \E p \in Callers, kind \in ErrorKinds :
          SafeOpenAICall_Error(p, kind) /\ UNCHANGED <<cbVars, wfVars, rlVars, cacheVars>>

\* ... under the scheduling their timeouts give them: the back-off sleep of
\* tenacity ends, and acreate, called with request_timeout, returns or raises
SpecAILive ==
    /\ Init /\ [][NextSafeCall]_vars
    /\ \A p \in Callers :
          /\ WF_vars(SafeOpenAICall_Retry(p) /\ UNCHANGED <<cbVars, wfVars, rlVars, cacheVars>>)
          /\ WF_vars((\/ \E parsed \in BOOLEAN : SafeOpenAICall_Response(p, parsed)
                      \/ \E kind \in ErrorKinds : SafeOpenAICall_Error(p, kind))
                     /\ UNCHANGED <<cbVars, wfVars, rlVars, cacheVars>>)

\* caller p is inside safe_openai_call
InSafeCall(p) == ai_pc[p] \in {"await_acreate", "backoff"}

\* the attempt of caller p that fails in this step was its last one
FinalFailure(p) ==
    /\ ai_pc[p] = "await_acreate"
    /\ ai_attempt[p] = max_attempts
    /\ \E kind \in ErrorKinds : SafeOpenAICall_Error(p, kind)

\* C21: an invocation of safe_openai_call makes at most 3 attempts; an
\* attempt that times out or finds the service unavailable before the third
\* one is followed by a back-off and another attempt; the failure of the
\* third attempt ends the call, and the operation returns its fallback; and
\* every invocation comes to an end
C21_EndsWithinThreeAttempts ==
    /\ [](\A p \in Callers : ai_attempt[p] \in 1..max_attempts)
    /\ [][ \A p \in Callers :
              /\ \A kind \in {"TimeoutError", "ServiceUnavailableError"} :
                    (SafeOpenAICall_Error(p, kind) /\ ai_attempt[p] < max_attempts)
                       => /\ ai_pc'[p] = "backoff"
                          /\ ai_attempt'[p] = ai_attempt[p] + 1
              /\ FinalFailure(p)
                    => /\ ai_pc'[p] = "idle"
                       /\ ai_returned' = Returned(ai_op[p], FallbackOf(ai_op[p]))
         ]_vars
    /\ \A p \in Callers : InSafeCall(p) ~> ai_pc[p] = "idle"

\* an invocation failed for good at its third attempt and the operation
\* returned its fallback
C21_ThirdAttemptFailed ==
    /\ ai_model_failed
    /\ ai_returned.op \in SafeCallOps
    /\ ai_returned.ret = FallbackOf(ai_returned.op)
    /\ \A p \in Callers : ai_pc[p] = "idle"
    /\ error_count >= max_attempts


\* ------------------------------------- claims on execute_onboarding_workflow
\* the steps of the onboarding workflow in the order of the code
OnboardingOrder(resume) ==
    IF resume
    THEN <<"profile", "resume_analysis", "skill_assessment", "learning_path",
           "task_allocation">>
    ELSE <<"profile", "skill_assessment", "learning_path", "task_allocation">>

\* the steps whose data the workflow merges into intern_data
MergedSteps == {"resume_analysis", "skill_assessment"}

\* C22 (as the code has it): while the onboarding workflow awaits a step, the
\* steps that have returned are exactly the steps before it, in order, and
\* intern_data holds the data of exactly those resume_analysis and
\* skill_assessment steps among them that succeeded
C22_SequentialSteps ==
    (wf_pc.workflow = "new_intern_onboarding")
        => LET order == OnboardingOrder(has_resume)
               n == Len(wf_executed)
           IN  /\ n < Len(order)
               /\ wf_pc.at = order[n + 1]
               /\ \A i \in 1..n : wf_executed[i].key = order[i]
               /\ intern_data.merged =
                     {wf_executed[i].key : i \in {j \in 1..n :
                         /\ wf_executed[j].key \in MergedSteps
                         /\ wf_executed[j].envelope.success}}

\* the learning_path step is awaited with the data of both assessment steps
\* merged
C22_LearningPathSeesAssessments ==
    /\ wf_pc = Awaiting("new_intern_onboarding", "learning_path")
    /\ intern_data.merged = MergedSteps

\* C22 (as stated): while the onboarding workflow awaits a step, every step
\* before it has returned, and the data of each of them that succeeded has
\* been merged into intern_data, the context the awaited step is called with
C22_StepSeesEarlierOutput ==
    (wf_pc.workflow = "new_intern_onboarding")
        => \A i \in 1..Len(wf_executed) :
              /\ wf_executed[i].key # wf_pc.at
              /\ wf_executed[i].envelope.success
                    => wf_executed[i].key \in intern_data.merged

\* C30: the task-allocation step is invoked with the intern id the caller
\* supplied, whatever data the earlier steps returned
C30_AllocationKeepsCallerId ==
    (wf_pc = Awaiting("new_intern_onboarding", "task_allocation"))
        => intern_data.id = CallerInternId


\* C23: the in-process fallback cache never holds more entries than
\* local_cache_max_size, whatever sets, increments, deletes and timer
\* expiries came before
C23_LocalCacheWithinCap ==
    Len(local_cache) <= LocalCacheMaxSize


\* C24: a set that finds Redis unavailable, at start-up or at the time of
\* the call, stores the value in the in-process map, and a get that finds
\* Redis unavailable answers from the in-process map
C24_FallsBackToLocal ==
    [][ \A key \in PlainKeys :
           /\ \A value \in PlainValues, ttl \in TTLs :
                 Set(key, value, ttl, TRUE)
                    => \E i \in 1..Len(local_cache') :
                          local_cache'[i] = [key |-> key, value |-> value]
           /\ Get(key, TRUE) => cache_last'.value = LocalGet(key)
      ]_vars


\* ----------------------------------- further claims on AdvancedRateLimiter
\* C25: a check of a caller that leaves it without admitted timestamps in
\* the window and without a block leaves no key of it in client_requests
\* or blocked_ips, and a check that rejects, or that only reads the
\* remaining quota, adds no key for a caller that had none
C25_NoFootprintWhenIdle ==
    [][ \A c \in Clients, tier \in Tiers :
           /\ ((get_remaining(c, tier) \/ is_allowed(c, tier))
               /\ client_requests'[c] = <<>> /\ blocked_ips'[c] = 0)
                 => (c \notin request_keys' /\ c \notin blocked_keys')
           /\ (get_remaining(c, tier) \/ (is_allowed(c, tier) /\ ~rl_last'.allowed))
                 => /\ c \notin request_keys => c \notin request_keys'
                    /\ c \notin blocked_keys => c \notin blocked_keys'
      ]_vars


\* ------------------------------------- further claims on AICircuitBreaker
\* C26: while the breaker is OPEN and its reopen time has not come, nothing
\* but reset() takes it out of OPEN; in particular the completion of a call
\* that was in flight when the breaker opened does not
C26_OpenUntilTimerOrReset ==
    [][ (state = OPEN /\ ~ShouldAttemptReset /\ state' # OPEN) => Reset ]_vars


\* C27: in every state of the breaker, whatever calls and resets came before:
\* OPEN goes with a reopen time and at least failure_threshold consecutive
\* failures, HALF_OPEN with at least failure_threshold of them, CLOSED with
\* fewer, and the calls counted as failed or succeeded are never more than
\* the calls counted
C27_StateMatchesCounters ==
    /\ state = OPEN => (next_attempt_time # NoTime /\ failure_count >= failure_threshold)
    /\ state = HALF_OPEN => failure_count >= failure_threshold
    /\ state = CLOSED => failure_count < failure_threshold
    /\ total_failures + success_count <= total_requests

\* a probe is in flight in HALF_OPEN after a call that was in flight when
\* the breaker opened has failed as well
C27_ProbeAfterLateFailure ==
    /\ state = HALF_OPEN
    /\ failure_count > failure_threshold
    /\ total_failures + success_count < total_requests
    /\ \E p \in Callers : InFlight(p)


\* ---------------------------------------------------------------------------
\* The diagnostics: AICircuitBreaker.get_status, AIService.check_ai_credits
\* and AIService.get_ai_service_health
\* ---------------------------------------------------------------------------

\* get_status() of the module-level openai_circuit_breaker: a read of its
\* fields (no caller in the repository routes a call through this instance,
\* so the operations of AIService leave its fields as constructed)
get_status ==
    [state |-> state,
     failure_count |-> failure_count,
     success_count |-> success_count,
     failure_threshold |-> failure_threshold,
     total_requests |-> total_requests,
     total_failures |-> total_failures,
     last_failure_time |-> last_failure_time,
     next_attempt_time |-> next_attempt_time]

\* _is_circuit_breaker_open() on fields f and last: what it returns ...
IsOpenFor(f, last) ==
    /\ f >= circuit_breaker_threshold
    /\ ~(last # NoTime /\ now - last > circuit_breaker_timeout)

\* ... and whether it clears the fields
ClearsFor(f, last) ==
    /\ f >= circuit_breaker_threshold
    /\ last # NoTime
    /\ now - last > circuit_breaker_timeout

\* check_ai_credits(): the usage figures, and "is_open" from a call of
\* _is_circuit_breaker_open(), which is evaluated before failure_count and
\* last_failure are read
CheckAICredits ==
    /\ circuit_breaker_failures' =
          IF BreakerCheckClears THEN 0 ELSE circuit_breaker_failures
    /\ circuit_breaker_last_failure' =
          IF BreakerCheckClears THEN NoTime ELSE circuit_breaker_last_failure
    /\ ai_run' = IF BreakerCheckClears THEN 0 ELSE ai_run
    /\ ai_returned' = Returned("check_ai_credits",
                         [total_requests |-> request_count,
                          successful_requests |-> svc_success_count,
                          failed_requests |-> error_count,
                          is_open |-> IsCircuitBreakerOpen,
                          failure_count |-> circuit_breaker_failures',
                          last_failure |-> circuit_breaker_last_failure'])
    /\ ai_model_failed' = FALSE
    /\ UNCHANGED <<now, error_count, svc_success_count, request_count,
                   ai_pc, ai_op, ai_attempt, ai_ops_started, ai_recorded>>

HealthOp == "get_ai_service_health"

\* the dictionary get_ai_service_health returns (lines 419-433), built from
\* the fields s and e of the counters and from _is_circuit_breaker_open()
HealthReport(openai_status, open, s, e) ==
    [status |-> IF openai_status = "healthy" /\ ~open THEN "healthy" ELSE "unhealthy",
     circuit_breaker_open |-> open,
     openai_connectivity |-> openai_status,
     successful_requests |-> s,
     failed_requests |-> e]

\* the end of get_ai_service_health once its test call is over, the
\* breaker's fields being f and last by then: the two calls of
\* _is_circuit_breaker_open() in the returned dictionary, the first of which
\* may clear the fields
Health_Return(p, openai_status, f, last, run) ==
    /\ circuit_breaker_failures' = IF ClearsFor(f, last) THEN 0 ELSE f
    /\ circuit_breaker_last_failure' = IF ClearsFor(f, last) THEN NoTime ELSE last
    /\ ai_run' = IF ClearsFor(f, last) THEN 0 ELSE run
    /\ ai_pc' = [ai_pc EXCEPT ![p] = "idle"]
    /\ ai_op' = [ai_op EXCEPT ![p] = "none"]
    /\ ai_attempt' = [ai_attempt EXCEPT ![p] = 1]
    /\ ai_recorded' = [ai_recorded EXCEPT ![p] = 0]
    /\ ai_returned' = Returned(HealthOp,
                         HealthReport(openai_status, IsOpenFor(f, last),
                                      svc_success_count', error_count'))
    /\ ai_model_failed' = (openai_status # "healthy")

\* one attempt of the test call: as any attempt of safe_openai_call, except
\* that the RetryError of the last attempt lands in the bare except clause of
\* get_ai_service_health (line 413)
Health_Attempt(p) ==
    IF IsCircuitBreakerOpen /\ ai_attempt[p] >= max_attempts
    THEN /\ UNCHANGED <<now, error_count, svc_success_count, request_count>>
         /\ Health_Return(p, "unhealthy", circuit_breaker_failures,
                          circuit_breaker_last_failure, ai_run)
    ELSE SafeOpenAICall_Attempt(p, HealthOp)

\* get_ai_service_health up to its first suspension point: the first attempt
\* of the test call
Health_Start(p) ==
    /\ ai_pc[p] = "idle"
    /\ ai_ops_started < MaxOps
    /\ ai_ops_started' = ai_ops_started + 1
    /\ Health_Attempt(p)

\* tenacity's back-off sleep inside the test call is over
Health_Retry(p) ==
    /\ ai_pc[p] = "backoff"
    /\ ai_op[p] = HealthOp
    /\ Health_Attempt(p)
    /\ UNCHANGED ai_ops_started

\* acreate of the test call returned: _track_usage, _record_success, then
\* the rest of get_ai_service_health
Health_Response(p) ==
    /\ ai_pc[p] = "await_acreate"
    /\ ai_op[p] = HealthOp
    /\ request_count' = request_count + 1
    /\ svc_success_count' = svc_success_count + 1
    /\ UNCHANGED <<now, error_count, ai_ops_started>>
    /\ Health_Return(p, "healthy", RecordSuccessFailures(circuit_breaker_failures),
                     circuit_breaker_last_failure, 0)

\* acreate of the test call raised: _record_failure, then another attempt or
\* the rest of get_ai_service_health
Health_Error(p, kind) ==
    /\ ai_pc[p] = "await_acreate"
    /\ ai_op[p] = HealthOp
    /\ kind \in ErrorKinds
    /\ error_count' = error_count + 1
    /\ UNCHANGED <<now, svc_success_count, request_count, ai_ops_started>>
    /\ IF ai_attempt[p] < max_attempts
       THEN /\ circuit_breaker_failures' = RecordFailureFailures(circuit_breaker_failures)
            /\ circuit_breaker_last_failure' = now
            /\ ai_run' = ai_run + 1
            /\ AfterRaise(p, HealthOp, ai_recorded[p] + 1)
       ELSE Health_Return(p, "unhealthy",
                          RecordFailureFailures(circuit_breaker_failures), now, ai_run + 1)

\* wait_for(..., timeout=10) ran out while the test call was waiting for
\* acreate or sleeping between attempts: the call is cancelled without any
\* bookkeeping and the bare except clause takes the TimeoutError
Health_Timeout(p) ==
    /\ ai_pc[p] \in {"await_acreate", "backoff"}
    /\ ai_op[p] = HealthOp
    /\ UNCHANGED <<now, error_count, svc_success_count, request_count, ai_ops_started>>
    /\ Health_Return(p, "unhealthy", circuit_breaker_failures,
                     circuit_breaker_last_failure, ai_run)

\* the operations of AIService that call the model, the diagnostics and the
\* clock
NextDiag ==
    \/ \E p \in Callers, op \in SafeCallOps, valid \in BOOLEAN :
          SafeCallOp_Start(p, op, valid) /\ UNCHANGED <<cbVars, wfVars, rlVars, cacheVars>>
    \/ \E p \in Callers :
          /\ ai_op[p] \in SafeCallOps
          /\ SafeOpenAICall_Retry(p) /\ UNCHANGED <<cbVars, wfVars, rlVars, cacheVars>>
    \/ \E p \in Callers, parsed \in BOOLEAN :
          /\ ai_op[p] \in SafeCallOps
          /\ SafeOpenAICall_Response(p, parsed) /\ UNCHANGED <<cbVars, wfVars, rlVars, cacheVars>>
    \/ \E p \in Callers, kind \in ErrorKinds :
          /\ ai_op[p] \in SafeCallOps
          /\ SafeOpenAICall_Error(p, kind) /\ UNCHANGED <<cbVars, wfVars, rlVars, cacheVars>>
    \/ CheckAICredits /\ UNCHANGED <<cbVars, wfVars, rlVars, cacheVars>>
    \/ \E p \in Callers : Health_Start(p) /\ UNCHANGED <<cbVars, wfVars, rlVars, cacheVars>>
    \/ \E p \in Callers : Health_Retry(p) /\ UNCHANGED <<cbVars, wfVars, rlVars, cacheVars>>
    \/ \E p \in Callers : Health_Response(p) /\ UNCHANGED <<cbVars, wfVars, rlVars, cacheVars>>
    \/ \E p \in Callers, kind \in ErrorKinds :
          Health_Error(p, kind) /\ UNCHANGED <<cbVars, wfVars, rlVars, cacheVars>>
    \/ \E p \in Callers : Health_Timeout(p) /\ UNCHANGED <<cbVars, wfVars, rlVars, cacheVars>>
    \/ TickAI

SpecDiag == Init /\ [][NextDiag]_vars

\* a step of one of the diagnostics of AIService
DiagnosticStep ==
    \/ CheckAICredits
    \/ \E p \in Callers :
          \/ Health_Start(p)
          \/ Health_Retry(p)
          \/ Health_Response(p)
          \/ \E kind \in ErrorKinds : Health_Error(p, kind)
          \/ Health_Timeout(p)

\* C28: the diagnostic queries are read-only with respect to circuit state:
\* get_status (a read by construction), check_ai_credits and
\* get_ai_service_health leave the consecutive-failure count, the
\* last-failure time and the success and failure counters as they found them.
C28_DiagnosticsReadOnly ==
    [][ DiagnosticStep =>
           UNCHANGED <<circuit_breaker_failures, circuit_breaker_last_failure,
                       svc_success_count, error_count,
                       state, failure_count, success_count, last_failure_time,
                       total_requests, total_failures>> ]_vars

\* C29: whenever safe_openai_call is rejecting calls because the breaker of
\* AIService is open, the state that /health, /metrics and
\* HealthChecker.check_ai_service report from openai_circuit_breaker is not
\* "closed".
C29_ReportedStateTracksGate ==
    IsCircuitBreakerOpen => get_status.state # CLOSED

=============================================================================
